---- MODULE Spec2Model ----
(***************************************************************************)
(* Model of the repository crawler / chunking / embedding pipeline:        *)
(*   crawler/crawler.py   GitHubCrawler (routing, run statistics)          *)
(*   processors/abs.py    Processor.process_file (chunk, save, threshold)  *)
(*   processors/markdown.py, processors/not_implemented.py                 *)
(*   stores/s3_vector.py  S3VectorStore.save_chunks                        *)
(* Text is modelled as a sequence of one-character strings, so that the    *)
(* substring, extension and strip computations of the code are computed.   *)
(***************************************************************************)
EXTENDS Integers, Sequences, FiniteSets, TLC

VARIABLES
    mode,       \* "crawl": a crawl_repository run; "direct": processors called directly
    pc,         \* position of crawl_repository: "idle", "loop", "done"
    files,      \* the listing of the running crawl (sequence of paths)
    idx,        \* number of loop iterations of the crawl completed
    max_files,  \* GitHubCrawler.max_files (0: no ceiling)
    stats,      \* GitHubCrawler.stats
    vectors,    \* content of the vector index: set of records keyed by key
    last        \* observation of the last per-file call (what was called, what came back)

vars == <<mode, pc, files, idx, max_files, stats, vectors, last>>

(***************************************************************************)
(* Bounds of the model.                                                    *)
(***************************************************************************)
\* Longest listing a crawl is given.
MaxFiles == 3
\* CHUNK_SIZE and CHUNK_OVERLAP of the environment, scaled down.
ChunkSize == 4
ChunkOverlap == 1
\* Number of direct calls of a processor's process_file in one behaviour.
MaxCalls == 2
\* A crawler is given a further crawl while it has counted fewer files and
\* errors than this.
MaxRecrawl == 2

(***************************************************************************)
(* Text helpers (Python str operations on sequences of characters).        *)
(***************************************************************************)
Whitespace == {" ", "\n", "\t"}

RECURSIVE lstrip(_)
lstrip(s) ==
    IF s # <<>> /\ Head(s) \in Whitespace THEN lstrip(Tail(s)) ELSE s

RECURSIVE rstrip(_)
rstrip(s) ==
    IF s # <<>> /\ s[Len(s)] \in Whitespace
    THEN rstrip(SubSeq(s, 1, Len(s) - 1)) ELSE s

strip(s) == lstrip(rstrip(s))

\* s[i..] starts with p
StartsWithAt(s, p, i) ==
    /\ i + Len(p) - 1 <= Len(s)
    /\ \A k \in 1..Len(p) : s[i + k - 1] = p[k]

\* Python "p in s"
Contains(s, p) == \E i \in 1..(Len(s) - Len(p) + 1) : StartsWithAt(s, p, i)

\* index of the first occurrence of p in s at or after i, 0 when there is none
FindFrom(s, p, i) ==
    LET hits == {j \in i..(Len(s) - Len(p) + 1) : StartsWithAt(s, p, j)}
    IN IF hits = {} THEN 0 ELSE CHOOSE j \in hits : \A h \in hits : j <= h

\* str.lower()
UpperCase == <<"A", "B", "C", "D", "E", "F", "G", "H", "I", "J", "K", "L", "M",
               "N", "O", "P", "Q", "R", "S", "T", "U", "V", "W", "X", "Y", "Z">>
LowerCase == <<"a", "b", "c", "d", "e", "f", "g", "h", "i", "j", "k", "l", "m",
               "n", "o", "p", "q", "r", "s", "t", "u", "v", "w", "x", "y", "z">>
LowerChar(c) ==
    IF \E k \in 1..26 : UpperCase[k] = c
    THEN LowerCase[CHOOSE k \in 1..26 : UpperCase[k] = c]
    ELSE c

lower(s) == [i \in 1..Len(s) |-> LowerChar(s[i])]

\* the largest element of a non-empty set of integers
MaxOf(S) == CHOOSE m \in S : \A x \in S : x <= m

\* os.path.splitext(p)[1]: from the last dot of the last path component, unless
\* that dot is preceded only by dots in the component (a leading dot is no extension)
splitext_ext(p) ==
    LET seps == {i \in 1..Len(p) : p[i] = "/"}
        sepIndex == IF seps = {} THEN 0 ELSE MaxOf(seps)
        dots == {i \in (sepIndex + 1)..Len(p) : p[i] = "."}
        dotIndex == IF dots = {} THEN 0 ELSE MaxOf(dots)
    IN IF dotIndex > sepIndex
          /\ \E k \in (sepIndex + 1)..(dotIndex - 1) : p[k] # "."
       THEN SubSeq(p, dotIndex, Len(p))
       ELSE <<>>

\* str(i) for the small chunk indexes of the model
Digit(d) == CASE d = 0 -> "0" [] d = 1 -> "1" [] d = 2 -> "2" [] d = 3 -> "3"
              [] d = 4 -> "4" [] d = 5 -> "5" [] d = 6 -> "6" [] d = 7 -> "7"
              [] d = 8 -> "8" [] d = 9 -> "9"

RECURSIVE str(_)
str(i) == IF i < 10 THEN <<Digit(i)>> ELSE str(i \div 10) \o <<Digit(i % 10)>>

RECURSIVE Concat(_)
Concat(ss) == IF ss = <<>> THEN <<>> ELSE Head(ss) \o Concat(Tail(ss))

(***************************************************************************)
(* MarkdownProcessor: frontmatter, normalisation.                          *)
(***************************************************************************)
\* the characters of s at the indexes that satisfy Keep, in order
RECURSIVE KeepIndexes(_, _, _)
KeepIndexes(s, keep, i) ==
    IF i > Len(s) THEN <<>>
    ELSE (IF i \in keep THEN <<s[i]>> ELSE <<>>) \o KeepIndexes(s, keep, i + 1)

\* str.split('\n'): the pieces between newlines (one more than the newlines)
RECURSIVE split_lines(_)
split_lines(s) ==
    LET nl == FindFrom(s, <<"\n">>, 1)
    IN IF nl = 0 THEN <<s>>
       ELSE <<SubSeq(s, 1, nl - 1)>> \o split_lines(SubSeq(s, nl + 1, Len(s)))

\* '\n'.join(lines)
RECURSIVE join_lines(_)
join_lines(lines) ==
    IF lines = <<>> THEN <<>>
    ELSE IF Len(lines) = 1 THEN lines[1]
    ELSE lines[1] \o <<"\n">> \o join_lines(Tail(lines))

\* variant: a third blank line in a row is kept too
RECURSIVE drop_excess_blank_keeps_three(_, _)
drop_excess_blank_keeps_three(lines, empty_count) ==
    IF lines = <<>> THEN <<>>
    ELSE IF strip(Head(lines)) = <<>>
         THEN (IF empty_count + 1 <= 3 THEN <<Head(lines)>> ELSE <<>>)
              \o drop_excess_blank_keeps_three(Tail(lines), empty_count + 1)
         ELSE <<Head(lines)>> \o drop_excess_blank_keeps_three(Tail(lines), 0)

\* the loop of clean_content: keep a blank line only while empty_count <= 2
RECURSIVE drop_excess_blank(_, _)
drop_excess_blank(lines, empty_count) ==
    IF lines = <<>> THEN <<>>
    ELSE IF strip(Head(lines)) = <<>>
         THEN (IF empty_count + 1 <= 2 THEN <<Head(lines)>> ELSE <<>>)
              \o drop_excess_blank(Tail(lines), empty_count + 1)
         ELSE <<Head(lines)>> \o drop_excess_blank(Tail(lines), 0)

clean_content(content) ==
    LET lines == split_lines(content)
        cleaned_lines == [i \in 1..Len(lines) |-> rstrip(lines[i])]
    IN join_lines(drop_excess_blank(cleaned_lines, 0))

\* first and last index of the maximal run of newlines that holds index i
RunStart(s, i) ==
    CHOOSE a \in 1..i : /\ \A k \in a..i : s[k] = "\n"
                        /\ (a = 1 \/ s[a - 1] # "\n")
RunEnd(s, i) ==
    CHOOSE b \in i..Len(s) : /\ \A k \in i..b : s[k] = "\n"
                             /\ (b = Len(s) \/ s[b + 1] # "\n")

\* re.sub(r'\n{minRun,}(X)', '\n' * keepLen + X, s) for a literal X that holds
\* no newline: each maximal run of at least minRun newlines directly followed
\* by X is cut to keepLen newlines
sub_runs_before(s, minRun, keepLen, X) ==
    LET keep == {i \in 1..Len(s) :
                    \/ s[i] # "\n"
                    \/ LET a == RunStart(s, i)
                           b == RunEnd(s, i)
                       IN ~(b - a + 1 >= minRun /\ StartsWithAt(s, X, b + 1))
                          \/ i - a + 1 <= keepLen}
    IN KeepIndexes(s, keep, 1)

\* re.sub(r'X\n{minRun,}', X + '\n' * keepLen, s): each maximal run of at least
\* minRun newlines directly preceded by X is cut to keepLen newlines
sub_runs_after(s, minRun, keepLen, X) ==
    LET keep == {i \in 1..Len(s) :
                    \/ s[i] # "\n"
                    \/ LET a == RunStart(s, i)
                           b == RunEnd(s, i)
                       IN ~(/\ b - a + 1 >= minRun
                            /\ a - Len(X) >= 1
                            /\ StartsWithAt(s, X, a - Len(X)))
                          \/ i - a + 1 <= keepLen}
    IN KeepIndexes(s, keep, 1)

\* the backquote character (written by name)
Backquote == "BQ"
Fence == <<Backquote, Backquote, Backquote>>

preprocess_content(content) ==
    LET c0 == clean_content(content)
        c1 == sub_runs_before(c0, 3, 2, <<"#">>)
        c2 == sub_runs_before(c1, 3, 2, Fence)
        c3 == sub_runs_after(c2, 3, 2, Fence)
        c4 == sub_runs_before(c3, 2, 1, <<"|">>)
    IN strip(c4)

FmOpen == <<"-", "-", "-", "\n">>
FmClose == <<"\n", "-", "-", "-", "\n">>

\* re.match(r'^---\n(.*?)\n---\n', content, re.DOTALL): the content without the
\* matched block (the first closing delimiter at or after the opening one's end)
extract_frontmatter(content) ==
    LET close == IF StartsWithAt(content, FmOpen, 1)
                 THEN FindFrom(content, FmClose, Len(FmOpen) + 1) ELSE 0
    IN IF close = 0 THEN content
       ELSE SubSeq(content, close + Len(FmClose), Len(content))

(***************************************************************************)
(* RecursiveCharacterTextSplitter (langchain), as MarkdownProcessor        *)
(* configures it: separators "\n\n", "\n", ".", " ", "", the separator     *)
(* kept at the start of the piece that follows it, chunks stripped.        *)
(***************************************************************************)
Separators == << <<"\n", "\n">>, <<"\n">>, <<".">>, <<" ">>, <<>> >>

\* int(os.environ.get("CHUNK_SIZE", ...)) and CHUNK_OVERLAP: the environment
\* of a run sets them; the runs by character have CHUNK_SIZE=1, CHUNK_OVERLAP=0
chunk_size == IF mode = "segment_by_char" THEN 1 ELSE ChunkSize
chunk_overlap == IF mode = "segment_by_char" THEN 0 ELSE ChunkOverlap

\* text cut before every occurrence of sep found at or after index from
RECURSIVE CutBefore(_, _, _)
CutBefore(text, sep, from) ==
    LET p == FindFrom(text, sep, from)
    IN IF p = 0 THEN <<text>>
       ELSE <<SubSeq(text, 1, p - 1)>>
            \o CutBefore(SubSeq(text, p, Len(text)), sep, Len(sep) + 1)

\* variant: the separator "" leaves the text whole
split_on_no_chars(text, sep) ==
    IF sep = <<>> THEN <<text>>
    ELSE SelectSeq(CutBefore(text, sep, 1), LAMBDA piece : piece # <<>>)

\* the splitter's split on one separator: the non-empty pieces, each but the
\* first starting with the separator; the characters when the separator is ""
split_on(text, sep) ==
    IF sep = <<>> THEN [i \in 1..Len(text) |-> <<text[i]>>]
    ELSE SelectSeq(CutBefore(text, sep, 1), LAMBDA piece : piece # <<>>)

\* variant: nothing is dropped from the front, the whole chunk is carried over
pop_front_keeps_all(current_doc, total, len) ==
    [current_doc |-> current_doc, total |-> total]

\* the while loop of the merge: drop pieces from the front of current_doc
\* until what is left fits the overlap and leaves room for the next piece
RECURSIVE pop_front(_, _, _)
pop_front(current_doc, total, len) ==
    IF total > chunk_overlap \/ (total + len > chunk_size /\ total > 0)
    THEN pop_front(Tail(current_doc), total - Len(Head(current_doc)), len)
    ELSE [current_doc |-> current_doc, total |-> total]

\* a joined, stripped chunk, or nothing when it is empty
join_docs(docs) ==
    LET text == strip(Concat(docs))
    IN IF text = <<>> THEN <<>> ELSE <<text>>

\* variant: every piece becomes a chunk of its own
merge_splits_each_piece(splits, current_doc, total) ==
    SelectSeq([i \in 1..Len(splits) |-> strip(splits[i])],
              LAMBDA text : text # <<>>)

\* the splitter's merge of small pieces into chunks of at most chunk_size
\* characters with chunk_overlap characters carried over
RECURSIVE merge_splits(_, _, _)
merge_splits(splits, current_doc, total) ==
    IF splits = <<>> THEN join_docs(current_doc)
    ELSE LET d == Head(splits)
             len == Len(d)
             full == total + len > chunk_size /\ Len(current_doc) > 0
             kept == IF full THEN pop_front(current_doc, total, len)
                     ELSE [current_doc |-> current_doc, total |-> total]
         IN (IF full THEN join_docs(current_doc) ELSE <<>>)
            \o merge_splits(Tail(splits), Append(kept.current_doc, d),
                            kept.total + len)

\* index of the separator the splitter uses for text: the first one that is
\* "" or occurs in text
pick_separator(text, separators) ==
    CHOOSE i \in 1..Len(separators) :
        /\ separators[i] = <<>> \/ Contains(text, separators[i])
        /\ \A j \in 1..(i - 1) :
              separators[j] # <<>> /\ ~Contains(text, separators[j])

RECURSIVE split_text_with(_, _)
RECURSIVE split_pieces(_, _, _)
\* the loop over the pieces: short pieces are collected and merged, a piece of
\* chunk_size characters or more is split again with the finer separators, or
\* emitted as it is when there is none left
split_pieces(splits, good_splits, new_separators) ==
    LET flushed == IF good_splits = <<>> THEN <<>>
                   ELSE merge_splits(good_splits, <<>>, 0)
    IN IF splits = <<>> THEN flushed
       ELSE LET s == Head(splits)
            IN IF Len(s) < chunk_size
               THEN split_pieces(Tail(splits), Append(good_splits, s),
                                 new_separators)
               ELSE flushed
                    \o (IF new_separators = <<>> THEN <<s>>
                        ELSE split_text_with(s, new_separators))
                    \o split_pieces(Tail(splits), <<>>, new_separators)

split_text_with(text, separators) ==
    LET i == pick_separator(text, separators)
        separator == separators[i]
        new_separators == IF separator = <<>> THEN <<>>
                          ELSE SubSeq(separators, i + 1, Len(separators))
    IN split_pieces(split_on(text, separator), <<>>, new_separators)

split_text(text) == split_text_with(text, Separators)

(***************************************************************************)
(* Chunks and processors.                                                  *)
(***************************************************************************)
\* {**a, **b}: the entries of a, overridden and extended by those of b
MergeDict(a, b) ==
    [k \in DOMAIN a \cup DOMAIN b |-> IF k \in DOMAIN b THEN b[k] ELSE a[k]]

\* the processors main() registers, in registration order
Processors == <<"markdown", "python", "javascript", "json", "yaml", "text", "config">>

supported_file_types(processor) ==
    CASE processor = "markdown" ->
            { <<".", "m", "d">>, <<".", "m", "a", "r", "k", "d", "o", "w", "n">>,
              <<".", "m", "d", "o", "w", "n">>, <<".", "m", "k", "d">>,
              <<".", "m", "d", "x">> }
      [] processor = "python" ->
            { <<".", "p", "y">>, <<".", "p", "y", "x">>, <<".", "p", "y", "i">> }
      [] processor = "javascript" ->
            { <<".", "j", "s">>, <<".", "j", "s", "x">>, <<".", "t", "s">>,
              <<".", "t", "s", "x">> }
      [] processor = "json" ->
            { <<".", "j", "s", "o", "n">>, <<".", "j", "s", "o", "n", "l">> }
      [] processor = "yaml" ->
            { <<".", "y", "m", "l">>, <<".", "y", "a", "m", "l">> }
      [] processor = "text" ->
            { <<".", "t", "x", "t">>, <<".", "t", "e", "x", "t">> }
      [] processor = "config" ->
            { <<".", "i", "n", "i">>, <<".", "c", "f", "g">>,
              <<".", "c", "o", "n", "f">>, <<".", "t", "o", "m", "l">> }

supports_file(processor, file_path) ==
    lower(splitext_ext(file_path)) \in supported_file_types(processor)

ChunkTag == <<"#", "c", "h", "u", "n", "k", "-">>

\* variant: the source of a chunk leaves out the path of its file
make_chunk_without_path(chunk_text, file_path, metadata, i) ==
    [content  |-> strip(chunk_text),
     source   |-> ChunkTag \o str(i),
     metadata |-> MergeDict(metadata, [chunk_index |-> i])]

\* variant: the source of a chunk leaves out its index
make_chunk_without_index(chunk_text, file_path, metadata, i) ==
    [content  |-> strip(chunk_text),
     source   |-> file_path \o ChunkTag,
     metadata |-> MergeDict(metadata, [chunk_index |-> i])]

\* the Chunk built for segment i (counted from 0) of the splitter's output
make_chunk(chunk_text, file_path, metadata, i) ==
    [content  |-> strip(chunk_text),
     source   |-> file_path \o ChunkTag \o str(i),
     metadata |-> MergeDict(metadata, [chunk_index |-> i])]

RECURSIVE chunks_of(_, _, _, _)
chunks_of(text_chunks, file_path, metadata, i) ==
    IF i >= Len(text_chunks) THEN <<>>
    ELSE (IF strip(text_chunks[i + 1]) = <<>> THEN <<>>
          ELSE <<make_chunk(text_chunks[i + 1], file_path, metadata, i)>>)
         \o chunks_of(text_chunks, file_path, metadata, i + 1)

MarkdownProcessor_chunkify_file(content, file_path, metadata) ==
    LET content_without_fm == extract_frontmatter(content)
        processed_content == preprocess_content(content_without_fm)
        text_chunks == split_text(processed_content)
    IN chunks_of(text_chunks, file_path, metadata, 0)

NotImplementedProcessor_chunkify_file(content, file_path, metadata) == <<>>

chunkify_file(processor, content, file_path, metadata) ==
    IF processor = "markdown"
    THEN MarkdownProcessor_chunkify_file(content, file_path, metadata)
    ELSE NotImplementedProcessor_chunkify_file(content, file_path, metadata)

(***************************************************************************)
(* S3VectorStore.save_chunks.  The embedding model and the vector backend  *)
(* are outside the program: embed_ok[i] says whether create_embedding      *)
(* returns for chunk i (it raises otherwise), put_ok whether put_vectors   *)
(* returns (it raises otherwise, and the index keeps its content).         *)
(***************************************************************************)
\* variant: the entries of the chunk's own metadata win over those added
vector_record_own_metadata_wins(chunk) ==
    [key      |-> chunk.source,
     metadata |-> MergeDict([content    |-> chunk.content,
                             chunk_size |-> Len(chunk.content),
                             source     |-> chunk.source],
                            chunk.metadata)]

\* the record save_chunks prepares for one chunk
vector_record(chunk) ==
    [key      |-> chunk.source,
     metadata |-> MergeDict(chunk.metadata,
                            [content    |-> chunk.content,
                             chunk_size |-> Len(chunk.content),
                             source     |-> chunk.source])]

\* variant: the loop ends at the first chunk whose embedding fails
RECURSIVE embed_loop_stops(_, _, _)
embed_loop_stops(chunks, embed_ok, i) ==
    IF i > Len(chunks) THEN <<>>
    ELSE IF ~embed_ok[i] THEN <<[chunk |-> chunks[i], embedded |-> FALSE]>>
    ELSE <<[chunk |-> chunks[i], embedded |-> TRUE]>>
         \o embed_loop_stops(chunks, embed_ok, i + 1)

\* the for loop: every chunk is visited in order, and create_embedding either
\* returns for it (the record is prepared) or raises (the chunk is passed over)
RECURSIVE embed_loop(_, _, _)
embed_loop(chunks, embed_ok, i) ==
    IF i > Len(chunks) THEN <<>>
    ELSE <<[chunk |-> chunks[i], embedded |-> embed_ok[i]]>>
         \o embed_loop(chunks, embed_ok, i + 1)

\* variant: every written record gets a key generated at the write (the
\* number of records in the index appended to the source)
put_vectors_generated_keys(index, batch) ==
    index \cup {[batch[i] EXCEPT !.key = @ \o str(Cardinality(index))] :
                   i \in 1..Len(batch)}

\* the index after put_vectors(batch): a record replaces the one with its key
put_vectors(index, batch) ==
    LET keys == {batch[i].key : i \in 1..Len(batch)}
        \* of records with one key in the batch, the last one stays
        written == {batch[i] : i \in {j \in 1..Len(batch) :
                        \A k \in (j + 1)..Len(batch) : batch[k].key # batch[j].key}}
    IN {v \in index : v.key \notin keys} \cup written

\* variant: after a failed batch write the prepared ids are still returned
save_chunks_partial_on_failure(chunks, embed_ok, put_ok, index) ==
    LET visited == embed_loop(chunks, embed_ok, 1)
        prepared == SelectSeq(visited, LAMBDA v : v.embedded)
    IN [returned |-> [i \in 1..Len(prepared) |-> prepared[i].chunk.source],
        raised |-> FALSE,
        embed_calls |-> [i \in 1..Len(visited) |-> visited[i].chunk.source],
        put_called |-> prepared # <<>>,
        put_returned |-> prepared # <<>> /\ put_ok,
        index |-> IF prepared # <<>> /\ put_ok
                  THEN put_vectors(index, [i \in 1..Len(prepared) |->
                                              vector_record(prepared[i].chunk)])
                  ELSE index]

\* variant: the batch write is attempted even when nothing was prepared
save_chunks_always_puts(chunks, embed_ok, put_ok, index) ==
    LET visited == embed_loop(chunks, embed_ok, 1)
        prepared == SelectSeq(visited, LAMBDA v : v.embedded)
    IN [returned |-> IF put_ok THEN [i \in 1..Len(prepared) |-> prepared[i].chunk.source]
                     ELSE <<>>,
        raised |-> FALSE,
        embed_calls |-> [i \in 1..Len(visited) |-> visited[i].chunk.source],
        put_called |-> TRUE,
        put_returned |-> put_ok,
        index |-> IF put_ok
                  THEN put_vectors(index, [i \in 1..Len(prepared) |->
                                              vector_record(prepared[i].chunk)])
                  ELSE index]

save_chunks(chunks, embed_ok, put_ok, index) ==
    LET visited == embed_loop(chunks, embed_ok, 1)
        prepared == SelectSeq(visited, LAMBDA v : v.embedded)
        vectors_to_put == [i \in 1..Len(prepared) |-> vector_record(prepared[i].chunk)]
        saved_ids == [i \in 1..Len(vectors_to_put) |-> vectors_to_put[i].key]
        embed_calls == [i \in 1..Len(visited) |-> visited[i].chunk.source]
    IN IF vectors_to_put = <<>>
       THEN [returned |-> <<>>, raised |-> FALSE, embed_calls |-> embed_calls,
             put_called |-> FALSE, put_returned |-> FALSE, index |-> index]
       ELSE IF put_ok
       THEN [returned |-> saved_ids, raised |-> FALSE, embed_calls |-> embed_calls,
             put_called |-> TRUE, put_returned |-> TRUE,
             index |-> put_vectors(index, vectors_to_put)]
       ELSE [returned |-> <<>>, raised |-> FALSE, embed_calls |-> embed_calls,
             put_called |-> TRUE, put_returned |-> FALSE, index |-> index]

(***************************************************************************)
(* Processor.process_file and its override in NotImplementedProcessor.     *)
(* The result records what the call returned and what it called.           *)
(***************************************************************************)
\* a call that returned before save_chunks
NoSave(result, chunks, index) ==
    [result |-> result, raised |-> FALSE, chunks |-> chunks,
     save_called |-> FALSE, save_raised |-> FALSE, saved_ids |-> <<>>,
     embed_calls |-> <<>>, put_called |-> FALSE, put_returned |-> FALSE,
     index |-> index]

\* variant: half of the chunks is enough
success_rate_ok_at_least_half(n_saved, n_chunks) == 2 * n_saved >= n_chunks

\* len(saved_ids) / len(chunks) > 0.5 (for counts this small the float
\* quotient compares with 0.5 as the exact quotient does)
success_rate_ok(n_saved, n_chunks) == 2 * n_saved > n_chunks

\* the end of process_file once save_chunks has returned (saved): the result
\* is the comparison of the saved share with one half; the division raises on
\* an empty chunk list and the except branch returns False
after_save(chunks, saved) ==
    [result      |-> IF saved.raised \/ chunks = <<>> THEN FALSE
                     ELSE success_rate_ok(Len(saved.returned), Len(chunks)),
     raised      |-> FALSE,
     chunks      |-> chunks,
     save_called |-> TRUE,
     save_raised |-> saved.raised,
     saved_ids   |-> saved.returned,
     embed_calls |-> saved.embed_calls,
     put_called  |-> saved.put_called,
     put_returned |-> saved.put_returned,
     index       |-> saved.index]

\* variant: no return on an empty chunk list, so save_chunks gets it
after_chunkify_saves_empty(chunks, embed_ok, put_ok, index) ==
    after_save(chunks, save_chunks(chunks, embed_ok, put_ok, index))

\* variant: a call that ends in False puts the index back as it was
after_chunkify_rolls_back(chunks, embed_ok, put_ok, index) ==
    IF chunks = <<>>
    THEN NoSave(FALSE, chunks, index)
    ELSE IF after_save(chunks, save_chunks(chunks, embed_ok, put_ok, index)).result
    THEN after_save(chunks, save_chunks(chunks, embed_ok, put_ok, index))
    ELSE [after_save(chunks, save_chunks(chunks, embed_ok, put_ok, index))
             EXCEPT !.index = index]

\* process_file from the chunk list on: nothing is saved when it is empty
after_chunkify(chunks, embed_ok, put_ok, index) ==
    IF chunks = <<>>
    THEN NoSave(FALSE, chunks, index)
    ELSE after_save(chunks, save_chunks(chunks, embed_ok, put_ok, index))

Processor_process_file(processor, content, file_path, metadata, embed_ok, put_ok, index) ==
    IF content = <<>> \/ strip(content) = <<>>
    THEN NoSave(FALSE, <<>>, index)
    ELSE IF ~supports_file(processor, file_path)
    THEN NoSave(FALSE, <<>>, index)
    ELSE after_chunkify(chunkify_file(processor, content, file_path, metadata),
                        embed_ok, put_ok, index)

\* variant: no override, the stub runs the inherited steps down to its empty
\* chunk list
NotImplementedProcessor_process_file_inherited(processor, content, file_path, metadata, index) ==
    NoSave(FALSE, <<>>, index)

NotImplementedProcessor_process_file(processor, content, file_path, metadata, index) ==
    NoSave(TRUE, <<>>, index)

process_file(processor, content, file_path, metadata, embed_ok, put_ok, index) ==
    IF processor = "markdown"
    THEN Processor_process_file(processor, content, file_path, metadata,
                                embed_ok, put_ok, index)
    ELSE NotImplementedProcessor_process_file(processor, content, file_path,
                                              metadata, index)

(***************************************************************************)
(* Python floats: IEEE-754 binary64.  A float is written as its 16         *)
(* hexadecimal digits (sign, 11 exponent bits, 52 fraction bits); the      *)
(* arithmetic works on sequences of bits, most significant first.  The     *)
(* operands covered are 0.0 and the floats of magnitude in [0.25, 4): a    *)
(* magnitude is counted in units of 2^-54, which all of them are whole     *)
(* multiples of.                                                           *)
(***************************************************************************)
HexDigits == <<"0", "1", "2", "3", "4", "5", "6", "7",
               "8", "9", "a", "b", "c", "d", "e", "f">>

\* the bits of the number n < 2^width, on width bits
RECURSIVE int_bits(_, _)
int_bits(n, width) ==
    IF width = 0 THEN <<>> ELSE int_bits(n \div 2, width - 1) \o <<n % 2>>

\* the number a sequence of bits stands for (short sequences only)
RECURSIVE bits_int(_)
bits_int(bits) ==
    IF bits = <<>> THEN 0
    ELSE 2 * bits_int(SubSeq(bits, 1, Len(bits) - 1)) + bits[Len(bits)]

\* the 64 bits of a float given by its hexadecimal digits
RECURSIVE hex_bits(_)
hex_bits(hex) ==
    IF hex = <<>> THEN <<>>
    ELSE int_bits((CHOOSE k \in 1..16 : HexDigits[k] = Head(hex)) - 1, 4)
         \o hex_bits(Tail(hex))

\* the hexadecimal digits of 64 bits
RECURSIVE bits_hex(_)
bits_hex(bits) ==
    IF bits = <<>> THEN <<>>
    ELSE <<HexDigits[bits_int(SubSeq(bits, 1, 4)) + 1]>>
         \o bits_hex(SubSeq(bits, 5, Len(bits)))

zeros(n) == [i \in 1..n |-> 0]

RECURSIVE strip_zeros(_)
strip_zeros(bits) ==
    IF bits # <<>> /\ Head(bits) = 0 THEN strip_zeros(Tail(bits)) ELSE bits

\* the exponent field of the floats in [0.25, 0.5): their last bit is worth
\* one unit (2^-54)
UnitExponent == 1021

float_negative(hex) == hex_bits(hex)[1] = 1

\* the magnitude of a float in units, without leading zeros: its 53-bit
\* significand shifted by its exponent
float_units(hex) ==
    LET bits == hex_bits(hex)
    IN IF bits_int(SubSeq(bits, 2, 12)) = 0 THEN <<>>
       ELSE <<1>> \o SubSeq(bits, 13, 64)
            \o zeros(bits_int(SubSeq(bits, 2, 12)) - UnitExponent)

\* a < b for magnitudes without leading zeros
units_less(a, b) ==
    \/ Len(a) < Len(b)
    \/ /\ Len(a) = Len(b)
       /\ \E i \in 1..Len(a) :
             a[i] < b[i] /\ \A j \in 1..(i - 1) : a[j] = b[j]

\* bits 1..i of a - b for a >= b of one length, given the borrow into bit i
RECURSIVE sub_bits(_, _, _, _)
sub_bits(a, b, i, borrow) ==
    IF i = 0 THEN <<>>
    ELSE IF a[i] - b[i] - borrow < 0
    THEN sub_bits(a, b, i - 1, 1) \o <<a[i] - b[i] - borrow + 2>>
    ELSE sub_bits(a, b, i - 1, 0) \o <<a[i] - b[i] - borrow>>

\* a - b for magnitudes a >= b
units_sub(a, b) ==
    strip_zeros(sub_bits(a, zeros(Len(a) - Len(b)) \o b, Len(a), 0))

\* a + 1
RECURSIVE units_inc(_)
units_inc(a) ==
    IF a = <<>> THEN <<1>>
    ELSE IF a[Len(a)] = 0 THEN SubSeq(a, 1, Len(a) - 1) \o <<1>>
    ELSE units_inc(SubSeq(a, 1, Len(a) - 1)) \o <<0>>

\* the first 53 bits of a longer magnitude are rounded up when what follows
\* is more than half of their last place, or half of it and the last bit odd
rounds_up(a) ==
    /\ a[54] = 1
    /\ \/ a[53] = 1
       \/ \E i \in 55..Len(a) : a[i] = 1

\* round to nearest, ties to even: a magnitude of more than 53 bits becomes
\* the nearest one with 53 significant bits
round_units(a) ==
    IF Len(a) <= 53 THEN a
    ELSE (IF rounds_up(a) THEN units_inc(SubSeq(a, 1, 53)) ELSE SubSeq(a, 1, 53))
         \o zeros(Len(a) - 53)

\* the float of a sign and a magnitude of at most 53 significant bits
float_of(negative, a) ==
    IF a = <<>> THEN bits_hex(zeros(64))
    ELSE bits_hex(<<IF negative THEN 1 ELSE 0>>
                  \o int_bits(Len(a) - 53 + UnitExponent, 11)
                  \o SubSeq(a \o zeros(52), 2, 53))

\* x - y for floats x >= 0 and y >= 0
float_sub(x, y) ==
    IF units_less(float_units(x), float_units(y))
    THEN float_of(TRUE, round_units(units_sub(float_units(y), float_units(x))))
    ELSE float_of(FALSE, round_units(units_sub(float_units(x), float_units(y))))

\* x < y for floats
float_less(x, y) ==
    IF float_negative(x) /\ float_negative(y)
    THEN units_less(float_units(y), float_units(x))
    ELSE IF float_negative(x) THEN float_units(x) # <<>> \/ float_units(y) # <<>>
    ELSE IF float_negative(y) THEN FALSE
    ELSE units_less(float_units(x), float_units(y))

(***************************************************************************)
(* S3VectorStore.search and the agent's tool search_a3_wiki.  The answers  *)
(* of the embedding model and of query_vectors come from outside: embed_ok *)
(* says whether create_embedding returns for the query, query_ok whether   *)
(* query_vectors returns, response is what it returns.  A dict is a record *)
(* that has the keys present; a null distance is written JsonNull.         *)
(***************************************************************************)
EmptyDict == [key \in {} |-> key]
JsonNull == <<"n", "u", "l", "l">>

\* d.get(key, default)
dict_get(d, key, default) == IF key \in DOMAIN d THEN d[key] ELSE default

\* the float 1.0
FloatOne == <<"3", "f", "f", "0", "0", "0", "0", "0",
              "0", "0", "0", "0", "0", "0", "0", "0">>

\* variant: the score is kept within 0.0 and 1.0
search_result_clamped(vector_result) ==
    [id       |-> dict_get(vector_result, "vectorId", <<>>),
     content  |-> dict_get(dict_get(vector_result, "metadata", EmptyDict),
                           "content", <<>>),
     source   |-> dict_get(dict_get(vector_result, "metadata", EmptyDict),
                           "source", <<>>),
     score    |-> IF float_negative(float_sub(FloatOne,
                                    dict_get(vector_result, "distance", FloatOne)))
                  THEN float_of(FALSE, <<>>)
                  ELSE float_sub(FloatOne,
                                 dict_get(vector_result, "distance", FloatOne)),
     metadata |-> dict_get(vector_result, "metadata", EmptyDict)]

\* the SearchResult built for one hit
search_result(vector_result) ==
    [id       |-> dict_get(vector_result, "vectorId", <<>>),
     content  |-> dict_get(dict_get(vector_result, "metadata", EmptyDict),
                           "content", <<>>),
     source   |-> dict_get(dict_get(vector_result, "metadata", EmptyDict),
                           "source", <<>>),
     score    |-> float_sub(FloatOne, dict_get(vector_result, "distance", FloatOne)),
     metadata |-> dict_get(vector_result, "metadata", EmptyDict)]

\* building the SearchResult of the hit raises: its distance is null
\* (1.0 - None is a TypeError)
hit_raises(vector_result) ==
    dict_get(vector_result, "distance", FloatOne) = JsonNull

\* variant: the results are put in the reverse of the backend's order
search_results_reversed(hits) ==
    [i \in 1..Len(hits) |-> search_result(hits[Len(hits) + 1 - i])]

\* the loop over response.get("vectors", []): one result per hit, appended
search_results(hits) == [i \in 1..Len(hits) |-> search_result(hits[i])]

\* variant: no try around the call of create_embedding
search_embedding_unguarded(embed_ok, query_ok, response) ==
    IF ~embed_ok
    THEN [returned |-> <<>>, raised |-> TRUE, queried |-> FALSE]
    ELSE IF ~query_ok
    THEN [returned |-> <<>>, raised |-> FALSE, queried |-> TRUE]
    ELSE IF \E i \in 1..Len(dict_get(response, "vectors", <<>>)) :
                hit_raises(dict_get(response, "vectors", <<>>)[i])
    THEN [returned |-> <<>>, raised |-> FALSE, queried |-> TRUE]
    ELSE [returned |-> search_results(dict_get(response, "vectors", <<>>)),
          raised |-> FALSE, queried |-> TRUE]

\* search(query, limit): every exception ends in the except branch, which
\* returns []
search(embed_ok, query_ok, response) ==
    IF ~embed_ok
    THEN [returned |-> <<>>, raised |-> FALSE, queried |-> FALSE]
    ELSE IF ~query_ok
    THEN [returned |-> <<>>, raised |-> FALSE, queried |-> TRUE]
    ELSE IF \E i \in 1..Len(dict_get(response, "vectors", <<>>)) :
                hit_raises(dict_get(response, "vectors", <<>>)[i])
    THEN [returned |-> <<>>, raised |-> FALSE, queried |-> TRUE]
    ELSE [returned |-> search_results(dict_get(response, "vectors", <<>>)),
          raised |-> FALSE, queried |-> TRUE]

\* SearchResult.to_md: the pieces of the formatted text in order, the score
\* and the metadata standing for their renderings
to_md(result) ==
    <<"### ", result.source, "\n\n",
      "**Score:** ", result.score, "\n\n",
      "**Metadata:** ", result.metadata, "\n\n",
      "**Content:**\n", result.content, "\n">>

\* "\n".join(docs)
RECURSIVE join_md(_)
join_md(docs) ==
    IF docs = <<>> THEN <<>>
    ELSE IF Len(docs) = 1 THEN docs[1]
    ELSE docs[1] \o <<"\n">> \o join_md(Tail(docs))

\* the tool from the results of store.search on: an exception of search would
\* pass through it
markdown_of(found) ==
    IF found.raised
    THEN [results |-> <<>>, queried |-> found.queried, search_raised |-> TRUE,
          raised |-> TRUE, markdown_response |-> <<>>]
    ELSE [results |-> found.returned, queried |-> found.queried,
          search_raised |-> FALSE, raised |-> FALSE,
          markdown_response |->
              join_md([i \in 1..Len(found.returned) |-> to_md(found.returned[i])])]

search_a3_wiki(embed_ok, query_ok, response) ==
    markdown_of(search(embed_ok, query_ok, response))

(***************************************************************************)
(* GitHub.get_file_content: what the caller gets for each kind of answer   *)
(* of the GitHub API.  None is the result of every failure it handles; an  *)
(* exception it does not handle escapes to the caller.                     *)
(***************************************************************************)
None == [status |-> "None", content |-> <<>>]
Raised == [status |-> "raised", content |-> <<>>]
Text(content) == [status |-> "str", content |-> content]

get_file_content(response) ==
    CASE response.kind = "request_failed" -> None     \* _request returned None
      [] response.kind = "no_content" -> None         \* 'content' not in file_data
      [] response.kind = "not_base64" -> None         \* another encoding
      [] response.kind = "undecodable" -> None        \* b64decode raised
      [] response.kind = "unexpected" -> Raised       \* an exception _request lets through
      [] response.kind = "ok" -> Text(response.content)

(***************************************************************************)
(* GitHubCrawler.                                                          *)
(***************************************************************************)
skip_patterns ==
    << <<".", "g", "i", "t", "/">>,
       <<"n", "o", "d", "e", "_", "m", "o", "d", "u", "l", "e", "s", "/">>,
       <<"_", "_", "p", "y", "c", "a", "c", "h", "e", "_", "_", "/">>,
       <<".", "p", "y", "t", "e", "s", "t", "_", "c", "a", "c", "h", "e", "/">>,
       <<"v", "e", "n", "v", "/">>,
       <<"e", "n", "v", "/">>,
       <<".", "e", "n", "v">>,
       <<"p", "a", "c", "k", "a", "g", "e", "-", "l", "o", "c", "k", ".", "j", "s", "o", "n">>,
       <<"y", "a", "r", "n", ".", "l", "o", "c", "k">>,
       <<".", "D", "S", "_", "S", "t", "o", "r", "e">>,
       <<"T", "h", "u", "m", "b", "s", ".", "d", "b">> >>

\* variant: a pattern is compared with the whole path
should_skip_file_whole_path(file_path) ==
    \E i \in 1..Len(skip_patterns) : file_path = skip_patterns[i]

should_skip_file(file_path) ==
    \E i \in 1..Len(skip_patterns) : Contains(file_path, skip_patterns[i])

\* variant: an extension that is not a key falls back to the first processor
processor_map_default(extension) ==
    LET owners == {i \in 1..Len(Processors) :
                      extension \in supported_file_types(Processors[i])}
    IN IF owners = {} THEN Processors[1] ELSE Processors[MaxOf(owners)]

\* processor_map built by __init__: a later processor replaces an earlier one
\* registered for the same extension; "none" when the extension is not a key
processor_map(extension) ==
    LET owners == {i \in 1..Len(Processors) :
                      extension \in supported_file_types(Processors[i])}
    IN IF owners = {} THEN "none" ELSE Processors[MaxOf(owners)]

get_file_processor(file_path) == processor_map(lower(splitext_ext(file_path)))

\* the record of a per-file call: how the file was routed, what was fetched,
\* and what the processor (done) returned and called
Seen(file_path, skip_match, looked_up, processor, fetched, content, invoked, done, embed_ok, returned, raised) ==
    [path |-> file_path, skip_match |-> skip_match, looked_up |-> looked_up,
     processor |-> processor, fetched |-> fetched, content |-> content,
     invoked |-> invoked, result |-> done.result, chunks |-> done.chunks,
     save_called |-> done.save_called, save_raised |-> done.save_raised,
     saved_ids |-> done.saved_ids, embed_calls |-> done.embed_calls,
     embedded |-> embed_ok, put_called |-> done.put_called,
     put_returned |-> done.put_returned, returned |-> returned, raised |-> raised]

\* the record of a per-file call that returned before the processor ran
Untouched(file_path, skip_match, looked_up, processor, fetched, content, returned, raised) ==
    Seen(file_path, skip_match, looked_up, processor, fetched, content, FALSE,
         NoSave(FALSE, <<>>, {}), <<>>, returned, raised)

Bump(st, counter) == [st EXCEPT ![counter] = @ + 1]

FileError(file_path) == [scope |-> "file", path |-> file_path]

\* variant: a file the processor fails on is not counted as a failure
after_processor_forgets_failures(file_path, processor, content, embed_ok, st, done) ==
    [stats |-> IF done.result THEN Bump(st, "successful_embeddings") ELSE st,
     index |-> done.index,
     seen |-> Seen(file_path, FALSE, TRUE, processor, TRUE, content, TRUE, done,
                   embed_ok, done.result, FALSE)]

\* the end of GitHubCrawler.process_file once the processor has returned (done):
\* one success or one failure is counted
after_processor(file_path, processor, content, embed_ok, st, done) ==
    [stats |-> IF done.result THEN Bump(st, "successful_embeddings")
               ELSE Bump(st, "failed_embeddings"),
     index |-> done.index,
     seen |-> Seen(file_path, FALSE, TRUE, processor, TRUE, content, TRUE, done,
                   embed_ok, done.result, FALSE)]

\* GitHubCrawler.process_file(file_info, repo_info): the statistics, the index
\* and the record of the step after it
GitHubCrawler_process_file(file_path, response, embed_ok, put_ok, st, index) ==
    IF should_skip_file(file_path)
    THEN [stats |-> Bump(st, "skipped_files"), index |-> index,
          seen |-> Untouched(file_path, TRUE, FALSE, "none", FALSE, None, TRUE, FALSE)]
    ELSE LET processor == get_file_processor(file_path)
         IN IF processor = "none"
            THEN [stats |-> Bump(st, "skipped_files"), index |-> index,
                  seen |-> Untouched(file_path, FALSE, TRUE, processor, FALSE, None,
                                     TRUE, FALSE)]
            ELSE LET content == get_file_content(response)
                 IN IF content.status = "raised"
                    THEN [stats |-> [Bump(st, "failed_embeddings") EXCEPT
                                        !.errors = Append(@, FileError(file_path))],
                          index |-> index,
                          seen |-> Untouched(file_path, FALSE, TRUE, processor, TRUE,
                                             content, FALSE, TRUE)]
                    ELSE IF content.status = "None" \/ content.content = <<>>
                    THEN [stats |-> Bump(st, "skipped_files"), index |-> index,
                          seen |-> Untouched(file_path, FALSE, TRUE, processor, TRUE,
                                             content, TRUE, FALSE)]
                    ELSE after_processor(file_path, processor, content, embed_ok, st,
                                         process_file(processor, content.content,
                                                      file_path,
                                                      [file_path |-> file_path,
                                                       sha |-> <<>>],
                                                      embed_ok, put_ok, index))

(***************************************************************************)
(* Inputs: paths of a repository listing, file contents, API answers.      *)
(***************************************************************************)
PathA == <<"a", ".", "m", "d">>                          \* a.md
PathB == <<"d", "/", "b", ".", "M", "D">>                \* d/b.MD
PathGit == <<".", "g", "i", "t", "/", "c", ".", "m", "d">>   \* .git/c.md
PathLock == <<"y", "a", "r", "n", ".", "l", "o", "c", "k">>  \* yarn.lock
PathPng == <<"x", ".", "p", "n", "g">>                   \* x.png
PathPy == <<"m", ".", "p", "y">>                         \* m.py

Paths == {PathA, PathB, PathGit, PathLock, PathPng, PathPy}

\* the listings get_repository_files can return: distinct paths, any order
Listings ==
    {l \in UNION {[1..n -> Paths] : n \in 0..MaxFiles} :
        \A i, j \in 1..Len(l) : i # j => l[i] # l[j]}

Empty == <<>>                                                      \* ""
Blank == <<" ", "\n">>                                             \* " \n"
TwoWords == <<"a", "b", " ", "c", "d">>                            \* "ab cd"
ThreeWords == <<"a", "b", " ", "c", "d", " ", "e", "f">>           \* "ab cd ef"
OnlyFrontmatter == <<"-", "-", "-", "\n", "k", "\n", "-", "-", "-", "\n">>

Contents == {Empty, Blank, TwoWords, ThreeWords, OnlyFrontmatter}

\* the answers of the GitHub contents API
Responses ==
    {[kind |-> k, content |-> <<>>] :
        k \in {"request_failed", "no_content", "not_base64", "undecodable", "unexpected"}}
    \cup {[kind |-> "ok", content |-> c] : c \in Contents}

\* values of max_files: none, one that cuts listings short, the one of main()
MaxFilesChoices == {0, 2, 100}

EmptyStats ==
    [total_files |-> 0, successful_embeddings |-> 0, failed_embeddings |-> 0,
     skipped_files |-> 0, errors |-> <<>>]

NoCall == Untouched(<<>>, FALSE, FALSE, "none", FALSE, None, FALSE, FALSE)

CrawlError == [scope |-> "crawl", path |-> <<>>]

\* the number of embeddings the step asks for: the chunks of the file when the
\* step reaches save_chunks
chunks_reached(processor, file_path, content) ==
    IF processor = "markdown" /\ strip(content) # <<>>
       /\ supports_file(processor, file_path)
    THEN Len(chunkify_file(processor, content, file_path, [file_path |-> file_path]))
    ELSE 0

(***************************************************************************)
(* The crawl: GitHubCrawler.crawl_repository.                              *)
(***************************************************************************)
Init ==
    /\ mode = "crawl"
    /\ pc = "idle"
    /\ files = <<>>
    /\ idx = 0
    /\ max_files \in MaxFilesChoices
    /\ stats = EmptyStats
    /\ vectors = {}
    /\ last = NoCall

\* variant: the slice keeps one file more than max_files
files_to_process_one_more(listing, limit) ==
    IF limit > 0 THEN SubSeq(listing, 1, IF limit + 1 < Len(listing) THEN limit + 1 ELSE Len(listing))
    ELSE IF limit < 0 THEN SubSeq(listing, 1, IF Len(listing) + limit > 0 THEN Len(listing) + limit ELSE 0)
    ELSE listing

\* files[:self.max_files] if self.max_files else files
files_to_process(listing, limit) ==
    IF limit > 0 THEN SubSeq(listing, 1, IF limit < Len(listing) THEN limit ELSE Len(listing))
    ELSE IF limit < 0 THEN SubSeq(listing, 1, IF Len(listing) + limit > 0 THEN Len(listing) + limit ELSE 0)
    ELSE listing

\* variant: no try around the body of crawl_repository
StartCrawl_unguarded(url_ok, listing) ==
    /\ mode = "crawl" /\ pc = "idle"
    /\ IF ~url_ok
       THEN /\ pc' = "raised"
            /\ UNCHANGED <<stats, files>>
       ELSE IF listing = <<>>
       THEN /\ pc' = "done"
            /\ UNCHANGED <<stats, files>>
       ELSE /\ files' = listing
            /\ pc' = "loop"
            /\ UNCHANGED stats
    /\ UNCHANGED <<mode, idx, max_files, vectors, last>>

\* crawl_repository up to its loop: the URL is parsed and the listing fetched;
\* url_ok is false when _parse_repo_url or a request before the loop raises
StartCrawl(url_ok, listing) ==
    /\ mode = "crawl" /\ pc = "idle"
    /\ IF ~url_ok
       THEN /\ stats' = [stats EXCEPT !.errors = Append(@, CrawlError)]
            /\ files' = <<>>
            /\ pc' = "done"
       ELSE IF listing = <<>>
       THEN /\ pc' = "done"
            /\ UNCHANGED <<stats, files>>
       ELSE /\ files' = listing
            /\ pc' = "loop"
            /\ UNCHANGED stats
    /\ UNCHANGED <<mode, idx, max_files, vectors, last>>

\* one iteration of the loop: total_files is counted, process_file runs
CrawlFile(response, embed_ok, put_ok) ==
    /\ mode = "crawl" /\ pc = "loop" /\ idx < Len(files_to_process(files, max_files))
    /\ files_to_process(files, max_files)[idx + 1] # <<>>
    /\ LET step == GitHubCrawler_process_file(files_to_process(files, max_files)[idx + 1],
                                              response, embed_ok,
                                              put_ok, Bump(stats, "total_files"),
                                              vectors)
       IN /\ stats' = step.stats
          /\ vectors' = step.index
          /\ last' = step.seen
    /\ idx' = idx + 1
    /\ pc' = IF idx + 1 = Len(files_to_process(files, max_files)) THEN "done" ELSE "loop"
    /\ UNCHANGED <<mode, files, max_files>>

\* the answers the next iteration can get: one per kind when it asks for the
\* file's content, a single placeholder when it does not ask
NextResponses ==
    LET file_path == files_to_process(files, max_files)[idx + 1]
    IN IF should_skip_file(file_path) \/ get_file_processor(file_path) = "none"
       THEN {[kind |-> "request_failed", content |-> <<>>]}
       ELSE Responses

\* the embeddings the next iteration asks for
NextEmbeds(response) ==
    LET file_path == files_to_process(files, max_files)[idx + 1]
        processor == get_file_processor(file_path)
    IN IF should_skip_file(file_path) \/ processor = "none" \/ response.kind # "ok"
       THEN 0
       ELSE chunks_reached(processor, file_path, response.content)

\* the answers of put_vectors: both when it is called, a placeholder when not
PutAnswers(embed_ok) ==
    IF \E i \in DOMAIN embed_ok : embed_ok[i] THEN BOOLEAN ELSE {TRUE}

Next ==
    \/ \E url_ok \in BOOLEAN, listing \in Listings : StartCrawl(url_ok, listing)
    \/ /\ pc = "loop" /\ idx < Len(files_to_process(files, max_files))
       /\ \E response \in NextResponses :
             \E embed_ok \in [1..NextEmbeds(response) -> BOOLEAN] :
                \E put_ok \in PutAnswers(embed_ok) :
                   CrawlFile(response, embed_ok, put_ok)

Spec == Init /\ [][Next]_vars

(***************************************************************************)
(* One crawler given crawl after crawl: the statistics are set in          *)
(* __init__ only and go on from crawl to crawl.  The listings are short;   *)
(* an entry of a listing without 'path' is written as the empty path.      *)
(***************************************************************************)
\* the next call of crawl_repository on the crawler
CrawlAgain ==
    /\ mode = "crawl" /\ pc = "done"
    /\ stats.total_files + Len(stats.errors) < MaxRecrawl
    /\ pc' = "idle"
    /\ idx' = 0
    /\ files' = <<>>
    /\ UNCHANGED <<mode, max_files, stats, vectors, last>>

\* an iteration on an entry without 'path': total_files is counted, the
\* KeyError of file_info['path'] leaves process_file before its try, and the
\* except of crawl_repository logs one error and returns the statistics
CrawlFileRaises ==
    /\ mode = "crawl" /\ pc = "loop" /\ idx < Len(files_to_process(files, max_files))
    /\ files_to_process(files, max_files)[idx + 1] = <<>>
    /\ stats' = [Bump(stats, "total_files") EXCEPT
                    !.errors = Append(@, [scope |-> "crawl", path |-> <<"'path'">>])]
    /\ pc' = "done"
    /\ UNCHANGED <<mode, files, idx, max_files, vectors, last>>

RecrawlNext ==
    \/ \E url_ok \in BOOLEAN :
        \E listing \in {<<>>, <<<<>>, PathA>>, <<PathPy, <<>>, PathA>>}
                       \cup {<<p>> : p \in Paths} :
            StartCrawl(url_ok, listing)
    \/ /\ pc = "loop" /\ idx < Len(files_to_process(files, max_files))
       /\ files_to_process(files, max_files)[idx + 1] # <<>>
       /\ \E response \in {r \in NextResponses : r.content \in {Empty, TwoWords}} :
             \E embed_ok \in [1..NextEmbeds(response) -> BOOLEAN] :
                \E put_ok \in PutAnswers(embed_ok) :
                   CrawlFile(response, embed_ok, put_ok)
    \/ CrawlFileRaises
    \/ CrawlAgain

RecrawlSpec == Init /\ [][RecrawlNext]_vars

(***************************************************************************)
(* Processors called directly, with any content and any path.              *)
(***************************************************************************)
PathNoExt == <<"R", "E", "A", "D", "M", "E">>            \* README
DirectPaths == {PathA, PathB, PathPng, PathPy, PathNoExt}

ProcInit ==
    /\ mode = "direct"
    /\ pc = "idle"
    /\ files = <<>>
    /\ idx = 0
    /\ max_files = 0
    /\ stats = EmptyStats
    /\ vectors = {}
    /\ last = NoCall

DirectCall(processor, content, file_path, embed_ok, put_ok) ==
    /\ mode = "direct" /\ idx < MaxCalls
    /\ LET done == process_file(processor, content, file_path,
                                [file_path |-> file_path], embed_ok, put_ok, vectors)
       IN /\ vectors' = done.index
          /\ last' = Seen(file_path, FALSE, FALSE, processor, FALSE, Text(content),
                          TRUE, done, embed_ok, done.result, done.raised)
    /\ idx' = idx + 1
    /\ UNCHANGED <<mode, pc, files, max_files, stats>>

\* a chunk whose own metadata has entries named content, chunk_size and source
ClashingChunks ==
    << [content  |-> <<"a", "b">>,
        source   |-> PathA \o ChunkTag \o str(0),
        metadata |-> [file_path |-> PathA, chunk_index |-> 0,
                      content |-> <<"z">>, chunk_size |-> 0, source |-> PathB]] >>

\* the chunk lists save_chunks is called with directly: those of the sample
\* contents, the empty one among them, and one whose metadata has entries
\* with the names save_chunks uses
SampleChunkLists ==
    {chunkify_file("markdown", c, p, [file_path |-> p]) :
        c \in Contents, p \in {PathA, PathB}}
    \cup {ClashingChunks}

\* S3VectorStore.save_chunks called directly
DirectSave(chunks, embed_ok, put_ok) ==
    /\ mode = "direct" /\ idx < MaxCalls
    /\ LET saved == save_chunks(chunks, embed_ok, put_ok, vectors)
           done == [result |-> FALSE, raised |-> saved.raised, chunks |-> chunks,
                    save_called |-> TRUE, save_raised |-> saved.raised,
                    saved_ids |-> saved.returned, embed_calls |-> saved.embed_calls,
                    put_called |-> saved.put_called,
                    put_returned |-> saved.put_returned, index |-> saved.index]
       IN /\ vectors' = saved.index
          /\ last' = Seen(<<>>, FALSE, FALSE, "none", FALSE, None, FALSE, done,
                          embed_ok, FALSE, saved.raised)
    /\ idx' = idx + 1
    /\ UNCHANGED <<mode, pc, files, max_files, stats>>

ProcNext ==
    \/ \E i \in 1..Len(Processors), content \in Contents, file_path \in DirectPaths :
        \E embed_ok \in [1..chunks_reached(Processors[i], file_path, content) -> BOOLEAN] :
            \E put_ok \in PutAnswers(embed_ok) :
                DirectCall(Processors[i], content, file_path, embed_ok, put_ok)
    \/ \E chunks \in SampleChunkLists :
        \E embed_ok \in [1..Len(chunks) -> BOOLEAN] :
            \E put_ok \in PutAnswers(embed_ok) :
                DirectSave(chunks, embed_ok, put_ok)

ProcSpec == ProcInit /\ [][ProcNext]_vars

(***************************************************************************)
(* The five-file scenario: two paths that match skip patterns, one with no *)
(* registered processor, two Markdown files whose content is valid and     *)
(* whose chunks are all embedded and written.                              *)
(***************************************************************************)
ScenarioPaths == {PathGit, PathLock, PathPng, PathA, PathB}

ScenarioListings ==
    {l \in [1..Cardinality(ScenarioPaths) -> ScenarioPaths] :
        \A i, j \in 1..Len(l) : i # j => l[i] # l[j]}

ValidMarkdown == {TwoWords, ThreeWords}

ScenarioInit ==
    /\ mode = "crawl"
    /\ pc = "idle"
    /\ files = <<>>
    /\ idx = 0
    /\ max_files \in {0, 100}
    /\ stats = EmptyStats
    /\ vectors = {}
    /\ last = NoCall

\* the answers in the scenario: valid Markdown when the content is asked for
ScenarioResponses ==
    IF NextResponses = Responses
    THEN {[kind |-> "ok", content |-> c] : c \in ValidMarkdown}
    ELSE NextResponses

ScenarioNext ==
    \/ \E listing \in ScenarioListings : StartCrawl(TRUE, listing)
    \/ /\ pc = "loop" /\ idx < Len(files_to_process(files, max_files))
       /\ \E response \in ScenarioResponses :
             CrawlFile(response, [i \in 1..NextEmbeds(response) |-> TRUE], TRUE)

ScenarioSpec == ScenarioInit /\ [][ScenarioNext]_vars


(***************************************************************************)
(* One Markdown file processed again and again: the same path and content  *)
(* go through process_file a first time and then further times, against    *)
(* the index the earlier runs left.  pc tells how the runs so far ended:   *)
(* "saved" after a run whose chunks were all embedded and written,         *)
(* "resaved" after such a run that followed another one, "unsaved" after   *)
(* any other run.                                                          *)
(***************************************************************************)
ReprocessInit ==
    /\ mode = "reprocess"
    /\ pc = "idle"
    /\ files = <<>>
    /\ idx = 0
    /\ max_files = 0
    /\ stats = EmptyStats
    /\ vectors = {}
    /\ last = NoCall

\* the chunks of the run were all embedded and the batch was written
fully_saved(done, embed_ok) ==
    /\ done.save_called /\ done.put_returned
    /\ \A i \in DOMAIN embed_ok : embed_ok[i]

run_position(position, done, embed_ok) ==
    IF ~fully_saved(done, embed_ok) THEN "unsaved"
    ELSE IF position \in {"saved", "resaved"} THEN "resaved"
    ELSE "saved"

\* process_file on the file, whatever run it is
ProcessRun(content, file_path, embed_ok, put_ok) ==
    /\ mode = "reprocess" /\ idx < MaxCalls
    /\ LET done == process_file("markdown", content, file_path,
                                [file_path |-> file_path], embed_ok, put_ok, vectors)
       IN /\ vectors' = done.index
          /\ last' = Seen(file_path, FALSE, FALSE, "markdown", FALSE, Text(content),
                          TRUE, done, embed_ok, done.result, done.raised)
          /\ pc' = run_position(pc, done, embed_ok)
    /\ idx' = idx + 1
    /\ UNCHANGED <<mode, files, max_files, stats>>

FirstRun(content, file_path, embed_ok, put_ok) ==
    /\ pc = "idle"
    /\ ProcessRun(content, file_path, embed_ok, put_ok)

Rerun(embed_ok, put_ok) ==
    /\ pc # "idle"
    /\ ProcessRun(last.content.content, last.path, embed_ok, put_ok)

ReprocessNext ==
    \/ \E content \in Contents, file_path \in {PathA, PathB} :
        \E embed_ok \in [1..chunks_reached("markdown", file_path, content) -> BOOLEAN] :
            \E put_ok \in PutAnswers(embed_ok) :
                FirstRun(content, file_path, embed_ok, put_ok)
    \/ /\ pc # "idle"
       /\ \E embed_ok \in [1..chunks_reached("markdown", last.path,
                                              last.content.content) -> BOOLEAN] :
            \E put_ok \in PutAnswers(embed_ok) : Rerun(embed_ok, put_ok)

ReprocessSpec == ReprocessInit /\ [][ReprocessNext]_vars

(***************************************************************************)
(* S3VectorStore.health_check, called between runs of process_file.  The   *)
(* answer of the embedding model is outside the program.                   *)
(***************************************************************************)
\* invoke_model raises; the body has no "embedding"; it has an empty one; it
\* has a vector
EmbeddingResponses == {"invoke_failed", "no_embedding", "empty_embedding", "embedding"}

\* create_embedding: the vector, or an exception (its own ValueError when the
\* embedding is missing or empty), which it logs and raises again
create_embedding(response) ==
    IF response = "embedding"
    THEN [raised |-> FALSE, embedding |-> "vector"]
    ELSE [raised |-> TRUE, embedding |-> "None"]

\* variant: no try around the call of create_embedding
health_check_unguarded(response) ==
    IF create_embedding(response).raised
    THEN [returned |-> FALSE, raised |-> TRUE]
    ELSE [returned |-> create_embedding(response).embedding # "None", raised |-> FALSE]

\* health_check: test_embedding is not None, False on any exception
health_check(response) ==
    IF create_embedding(response).raised
    THEN [returned |-> FALSE, raised |-> FALSE]
    ELSE [returned |-> create_embedding(response).embedding # "None", raised |-> FALSE]

\* one call of health_check: it has no statement that touches the index
HealthCheck(response) ==
    /\ mode = "reprocess"
    /\ last' = MergeDict(last, [health |-> MergeDict(health_check(response),
                                                     [response |-> response])])
    /\ UNCHANGED <<mode, pc, files, idx, max_files, stats, vectors>>

HealthNext ==
    \/ ReprocessNext
    \/ \E response \in EmbeddingResponses : HealthCheck(response)

HealthSpec == ReprocessInit /\ [][HealthNext]_vars

(***************************************************************************)
(* Two files processed at the same time: two callers of process_file, one  *)
(* file each, share the index.  A caller prepares its records (chunks,     *)
(* embeddings) in one step and its write reaches the index record by       *)
(* record, in any interleaving with the other caller's.  pc, files and     *)
(* last hold one entry per caller.                                         *)
(***************************************************************************)
ConcInit ==
    /\ mode = "concurrent"
    /\ pc = <<"idle", "idle">>
    /\ files \in {<<PathA, PathB>>, <<PathB, PathA>>}
    /\ idx = 0
    /\ max_files = 0
    /\ stats = EmptyStats
    /\ vectors = {}
    /\ last = <<NoCall, NoCall>>

\* the records of the chunks whose embedding was created, in order
prepared_records(chunks, embed_ok) ==
    [i \in 1..Cardinality({k \in 1..Len(chunks) : embed_ok[k]}) |->
        vector_record(chunks[CHOOSE k \in 1..Len(chunks) :
            /\ embed_ok[k]
            /\ Cardinality({j \in 1..k : embed_ok[j]}) = i])]

\* process_file up to the call of put_vectors
Begin(w, content, embed_ok, put_ok) ==
    /\ mode = "concurrent" /\ pc[w] = "idle"
    /\ last' = [last EXCEPT ![w] =
           [content |-> content, embed_ok |-> embed_ok, put_ok |-> put_ok,
            n_chunks |-> chunks_reached("markdown", files[w], content),
            queue |-> IF chunks_reached("markdown", files[w], content) = 0
                      THEN <<>>
                      ELSE prepared_records(
                               chunkify_file("markdown", content, files[w],
                                             [file_path |-> files[w]]),
                               embed_ok),
            written |-> 0, result |-> FALSE]]
    /\ pc' = [pc EXCEPT ![w] = IF last'[w].queue = <<>> THEN "done" ELSE "writing"]
    /\ UNCHANGED <<mode, files, idx, max_files, stats, vectors>>

\* the write of the caller's next record; a failing put_vectors writes
\* nothing, and save_chunks returns []; after the last record process_file
\* compares the share of written chunks with one half
WriteOne(w) ==
    /\ mode = "concurrent" /\ pc[w] = "writing"
    /\ IF ~last[w].put_ok
       THEN /\ pc' = [pc EXCEPT ![w] = "done"]
            /\ UNCHANGED <<vectors, last>>
       ELSE /\ vectors' = put_vectors(vectors, <<last[w].queue[last[w].written + 1]>>)
            /\ last' = [last EXCEPT
                   ![w].written = @ + 1,
                   ![w].result = /\ last[w].written + 1 = Len(last[w].queue)
                                 /\ success_rate_ok(Len(last[w].queue),
                                                    last[w].n_chunks)]
            /\ pc' = [pc EXCEPT ![w] =
                   IF last[w].written + 1 = Len(last[w].queue) THEN "done"
                   ELSE "writing"]
    /\ UNCHANGED <<mode, files, idx, max_files, stats>>

ConcNext ==
    \/ \E w \in {1, 2}, content \in Contents :
        \E embed_ok \in [1..chunks_reached("markdown", files[w], content) -> BOOLEAN] :
            \E put_ok \in PutAnswers(embed_ok) : Begin(w, content, embed_ok, put_ok)
    \/ \E w \in {1, 2} : WriteOne(w)

ConcSpec == ConcInit /\ [][ConcNext]_vars


(***************************************************************************)
(* Searches through the agent's tool.  last holds the answers the call got *)
(* and what search and the tool returned.                                  *)
(***************************************************************************)
MaxHits == 2

Float00 == <<"0", "0", "0", "0", "0", "0", "0", "0",
             "0", "0", "0", "0", "0", "0", "0", "0">>        \* 0.0
Float03 == <<"3", "f", "d", "3", "3", "3", "3", "3",
             "3", "3", "3", "3", "3", "3", "3", "3">>        \* 0.3
Float14 == <<"3", "f", "f", "6", "6", "6", "6", "6",
             "6", "6", "6", "6", "6", "6", "6", "6">>        \* 1.4

\* distances a hit can report
Distances == {Float00, Float03, FloatOne, Float14}

\* the metadata save_chunks stored with two chunks
SampleMetadata ==
    {[file_path |-> p, chunk_index |-> 0, content |-> TwoWords, chunk_size |-> 5,
      source |-> p \o ChunkTag \o str(0)] : p \in {PathA, PathB}}

\* hits of query_vectors: with a distance and metadata, and with one missing
SampleHits ==
    {[distance |-> d, metadata |-> m] : d \in Distances \cup {JsonNull},
                                        m \in SampleMetadata}
    \cup {[distance |-> d] : d \in {Float03, Float14}}
    \cup {[metadata |-> m] : m \in SampleMetadata}

\* answers of query_vectors: up to MaxHits hits in any order, or no list
SearchResponses ==
    {[vectors |-> hits] : hits \in UNION {[1..n -> SampleHits] : n \in 0..MaxHits}}
    \cup {EmptyDict}

NoSearch ==
    [embed_ok |-> TRUE, query_ok |-> TRUE, response |-> EmptyDict,
     results |-> <<>>, queried |-> FALSE, search_raised |-> FALSE,
     raised |-> FALSE, markdown_response |-> <<>>]

SearchInit ==
    /\ mode = "search"
    /\ pc = "idle"
    /\ files = <<>>
    /\ idx = 0
    /\ max_files = 0
    /\ stats = EmptyStats
    /\ vectors = {}
    /\ last = NoSearch

\* one call of the tool; a search keeps no state, so one call shows them all
SearchWiki(embed_ok, query_ok, response) ==
    /\ mode = "search" /\ pc = "idle"
    /\ last' = MergeDict(search_a3_wiki(embed_ok, query_ok, response),
                         [embed_ok |-> embed_ok, query_ok |-> query_ok,
                          response |-> response])
    /\ pc' = "searched"
    /\ UNCHANGED <<mode, files, idx, max_files, stats, vectors>>

\* query_vectors answers only when it is called and returns
SearchNext ==
    \E embed_ok \in BOOLEAN :
        \E query_ok \in (IF embed_ok THEN BOOLEAN ELSE {FALSE}) :
            \E response \in (IF query_ok THEN SearchResponses ELSE {EmptyDict}) :
                SearchWiki(embed_ok, query_ok, response)

SearchSpec == SearchInit /\ [][SearchNext]_vars

(***************************************************************************)
(* Segmentation on its own: MarkdownProcessor.chunkify_file given any text *)
(* over a small alphabet.  last holds the text, its normalised form, the   *)
(* splitter's pieces and the chunks.                                       *)
(***************************************************************************)
MaxText == 6

\* a letter, the separators of the splitter, and whitespace
TextChars == {"a", " ", "\n", "."}

\* every text over TextChars, the sample contents, and two texts that begin
\* with a frontmatter block: one with a line between the delimiters, one
\* with none
Texts ==
    UNION {[1..n -> TextChars] : n \in 0..MaxText} \cup Contents
    \cup {FmOpen \o <<"k", "\n", "-", "-", "-", "\n", "a">>,
          FmOpen \o <<"-", "-", "-", "\n", "a">>}

NoSegments ==
    [content |-> <<>>, content_without_fm |-> <<>>, cleaned |-> <<>>,
     processed_content |-> <<>>, text_chunks |-> <<>>, chunks |-> <<>>]

SegmentInit ==
    /\ mode = "segment"
    /\ pc = "idle"
    /\ files = <<>>
    /\ idx = 0
    /\ max_files = 0
    /\ stats = EmptyStats
    /\ vectors = {}
    /\ last = NoSegments

\* one call of chunkify_file; it keeps no state, so one call shows them all
Segment(content) ==
    /\ mode \in {"segment", "segment_by_char"} /\ pc = "idle"
    /\ last' = [content |-> content,
                content_without_fm |-> extract_frontmatter(content),
                cleaned |-> clean_content(extract_frontmatter(content)),
                processed_content |->
                    preprocess_content(extract_frontmatter(content)),
                text_chunks |->
                    split_text(preprocess_content(extract_frontmatter(content))),
                chunks |->
                    chunkify_file("markdown", content, PathA, [file_path |-> PathA])]
    /\ pc' = "segmented"
    /\ UNCHANGED <<mode, files, idx, max_files, stats, vectors>>

SegmentNext == \E content \in Texts : Segment(content)

SegmentSpec == SegmentInit /\ [][SegmentNext]_vars

\* the same call in a run with CHUNK_SIZE=1 and CHUNK_OVERLAP=0, where the
\* splitter returns the characters of the text one by one, whitespace too
ByCharInit ==
    /\ mode = "segment_by_char"
    /\ pc = "idle"
    /\ files = <<>>
    /\ idx = 0
    /\ max_files = 0
    /\ stats = EmptyStats
    /\ vectors = {}
    /\ last = NoSegments

ByCharSpec == ByCharInit /\ [][SegmentNext]_vars

(***************************************************************************)
(* Properties.                                                             *)
(***************************************************************************)
Stubs == {"python", "javascript", "json", "yaml", "text", "config"}

\* the metadata a caller passes for a path
MetadataOf(file_path) == [file_path |-> file_path]

\* every character of the text is whitespace (the empty text included)
BlankText(text) == \A i \in 1..Len(text) : text[i] \in Whitespace

\* some skip pattern occurs somewhere in the path
MatchesSkipPattern(file_path) ==
    \E k \in 1..Len(skip_patterns) :
        \E o \in 0..(Len(file_path) - Len(skip_patterns[k])) :
            SubSeq(file_path, o + 1, o + Len(skip_patterns[k])) = skip_patterns[k]

\* no registered processor declares the extension of the path
NoRegisteredProcessor(file_path) ==
    \A i \in 1..Len(Processors) :
        lower(splitext_ext(file_path)) \notin supported_file_types(Processors[i])

\* a step of the crawl loop is taken on the file the loop has reached
CrawlStepOn(file_path) ==
    /\ mode = "crawl" /\ pc = "loop" /\ idx < Len(files_to_process(files, max_files))
    /\ idx' = idx + 1
    /\ file_path = files_to_process(files, max_files)[idx + 1]

\* C1: once process_file has handed n >= 1 chunks to save_chunks, it returns
\* true exactly when more keys came back than did not (strictly more than
\* half of n); with half of them or fewer it returns false.
C1_MoreThanHalf ==
    (last.invoked /\ last.save_called /\ Len(last.chunks) >= 1)
    => (last.result <=> Len(last.saved_ids) > Len(last.chunks) - Len(last.saved_ids))

\* exactly half of the chunks persisted, and the call returned false
C1_Witness ==
    /\ last.invoked /\ last.save_called
    /\ Len(last.chunks) = 2 /\ Len(last.saved_ids) = 1
    /\ ~last.result

\* C2: the Markdown processor's process_file returns false, raises nothing
\* and never calls save_chunks when the content is empty or whitespace only,
\* when the extension is not one of its supported types, or when
\* chunkify_file yields no chunk.
C2_RejectsWithoutSaving ==
    (/\ last.invoked /\ last.processor = "markdown"
     /\ \/ BlankText(last.content.content)
        \/ ~supports_file("markdown", last.path)
        \/ MarkdownProcessor_chunkify_file(last.content.content, last.path,
                                           MetadataOf(last.path)) = <<>>)
    => (/\ ~last.result /\ ~last.raised
        /\ ~last.save_called /\ last.embed_calls = <<>> /\ ~last.put_called)

\* a supported file whose non-blank content yields no chunk was rejected
C2_Witness ==
    /\ last.invoked /\ last.processor = "markdown"
    /\ last.content.content = OnlyFrontmatter
    /\ supports_file("markdown", last.path)
    /\ ~last.result /\ ~last.save_called

\* C3: a stub processor produces no chunk for any input and its process_file
\* returns true, raising nothing and calling neither the embedding model nor
\* the vector backend.
C3_StubsSucceedWithNothing ==
    (last.invoked /\ last.processor \in Stubs)
    => (/\ last.result /\ ~last.raised
        /\ last.chunks = <<>>
        /\ chunkify_file(last.processor, last.content.content, last.path,
                         MetadataOf(last.path)) = <<>>
        /\ ~last.save_called /\ last.embed_calls = <<>> /\ ~last.put_called)

\* the Python stub was given a file of its own type with text in it
C3_Witness ==
    /\ last.invoked /\ last.processor = "python"
    /\ last.path = PathPy /\ last.content.content = ThreeWords
    /\ last.result

\* C4: in a crawl, the step on a file that matches a skip pattern or whose
\* type is registered to a stub only adds nothing to the error log, leaves
\* successful_embeddings and failed_embeddings as they are and adds exactly
\* one to skipped_files (steps that end in the except branch set aside).
C4_OnlySkippedGrows ==
    [][\A file_path \in Paths :
          (/\ CrawlStepOn(file_path)
           /\ MatchesSkipPattern(file_path) \/ get_file_processor(file_path) \in Stubs
           /\ ~last'.raised)
          => (/\ stats'.errors = stats.errors
              /\ stats'.successful_embeddings = stats.successful_embeddings
              /\ stats'.failed_embeddings = stats.failed_embeddings
              /\ stats'.skipped_files = stats.skipped_files + 1)]_vars

\* C5: for every processor, the stubs included, process_file on a file whose
\* extension is outside the processor's declared set returns false, with no
\* chunk produced, nothing passed to the vector store and nothing raised.
C5_OutsideSetReturnsFalse ==
    (last.invoked /\ ~supports_file(last.processor, last.path))
    => (/\ ~last.result /\ ~last.raised
        /\ last.chunks = <<>> /\ ~last.save_called)

\* C6: for a file whose path matches a skip pattern, whatever its extension,
\* the per-file step looks up no processor, invokes none and does not fetch
\* the content: the skip filter comes first.
C6_SkipBeforeLookup ==
    (last.path # <<>> /\ MatchesSkipPattern(last.path))
    => (/\ ~last.looked_up /\ last.processor = "none"
        /\ ~last.fetched /\ ~last.invoked /\ ~last.save_called)

\* a Markdown file under .git/ was skipped without lookup or fetch
C6_Witness ==
    /\ last.path = PathGit
    /\ lower(splitext_ext(last.path)) \in supported_file_types("markdown")
    /\ ~last.looked_up /\ ~last.fetched
    /\ stats.skipped_files >= 1

\* C7: the step on a file whose extension has no registered processor counts
\* it in skipped_files, not in failed_embeddings or successful_embeddings,
\* adds nothing to the error log, and does not fetch its content.
C7_NoProcessorIsSkipped ==
    [][\A file_path \in Paths :
          (CrawlStepOn(file_path) /\ NoRegisteredProcessor(file_path))
          => (/\ stats'.skipped_files = stats.skipped_files + 1
              /\ stats'.failed_embeddings = stats.failed_embeddings
              /\ stats'.successful_embeddings = stats.successful_embeddings
              /\ stats'.errors = stats.errors
              /\ ~last'.fetched /\ ~last'.invoked)]_vars

\* x.png, which matches no skip pattern, was counted as skipped, unfetched
C7_Witness ==
    /\ last.path = PathPng /\ ~MatchesSkipPattern(last.path)
    /\ last.looked_up /\ ~last.fetched
    /\ stats.skipped_files >= 1 /\ stats.failed_embeddings = 0
    /\ stats.errors = <<>>

\* C8: the crawl over the five-file listing (2 skip matches, 1 file with no
\* processor, 2 valid Markdown files fully embedded and written) ends with
\* total_files = 5, skipped_files = 3, successful_embeddings = 2,
\* failed_embeddings = 0 and an empty error log, in every order of the listing.
C8_FiveFileCounters ==
    pc = "done"
    => stats = [total_files |-> 5, successful_embeddings |-> 2,
                failed_embeddings |-> 0, skipped_files |-> 3, errors |-> <<>>]

\* a crawl of the five files ended, with a skip match last and Markdown first
C8_Witness ==
    /\ pc = "done" /\ idx = 5
    /\ files[1] = PathB /\ files[5] = PathLock
    /\ stats.total_files = 5

\* C9: when a file's content cannot be fetched the crawl goes on, and the
\* failure is in the run's error log.
C9_FetchFailureLogged ==
    (last.fetched /\ last.content.status # "str")
    => (/\ \E i \in 1..Len(stats.errors) : stats.errors[i] = FileError(last.path)
        /\ pc = "done" => idx = Len(files_to_process(files, max_files)))

\* the k-th chunk, in input order, whose embedding was created
KthEmbedded(embedded, k) ==
    CHOOSE i \in DOMAIN embedded :
        embedded[i] /\ Cardinality({j \in 1..i : embedded[j]}) = k

\* C10: save_chunks raises nothing when embeddings fail: every chunk is still
\* tried, the result is never longer than the input, and when the batch write
\* succeeds it is exactly the sources of the embedded chunks, in input order.
C10_PerChunkFailuresSkipped ==
    last.save_called
    => (/\ ~last.save_raised /\ ~last.raised
        /\ last.embed_calls = [i \in 1..Len(last.chunks) |-> last.chunks[i].source]
        /\ Len(last.saved_ids) <= Len(last.chunks)
        /\ last.put_returned
           => last.saved_ids =
                 [k \in 1..Cardinality({i \in DOMAIN last.embedded : last.embedded[i]})
                    |-> last.chunks[KthEmbedded(last.embedded, k)].source])

\* the first embedding failed, a later one succeeded and was written
C10_Witness ==
    /\ last.save_called /\ Len(last.chunks) >= 2
    /\ ~last.embedded[1] /\ last.embedded[2]
    /\ last.put_returned
    /\ last.saved_ids[1] = last.chunks[2].source

\* every embedding of the call was created
AllEmbedded(call) == \A i \in DOMAIN call.embedded : call.embedded[i]

C12_EmptyInputCallsNothing ==
    (last.save_called /\ last.chunks = <<>>)
    => (/\ last.saved_ids = <<>> /\ ~last.save_raised
        /\ last.embed_calls = <<>>
        /\ ~last.put_called /\ ~last.put_returned)

\* save_chunks was called directly with no chunk, and the index is as it was
C12_Witness ==
    /\ mode = "direct" /\ ~last.invoked
    /\ last.save_called /\ last.chunks = <<>>
    /\ last.saved_ids = <<>> /\ ~last.put_called
    /\ idx >= 1

\* the keys of the records in the index
KeysOf(index) == {v.key : v \in index}

\* the call handed chunks to the store, all were embedded and written
FullySaved(call) ==
    /\ call.invoked /\ call.save_called /\ call.chunks # <<>>
    /\ AllEmbedded(call) /\ call.put_returned

\* C13: a record's key is its chunk's source, so a run over the same path and
\* content as the run before it, both with every embedding and the write
\* succeeding, leaves the index with the keys it had after the first of the
\* two: the sources of the file's chunks, one record each.
C13_ReprocessingOverwrites ==
    [][(/\ mode = "reprocess" /\ idx' = idx + 1
        /\ FullySaved(last) /\ FullySaved(last')
        /\ last'.path = last.path /\ last'.content = last.content)
       => (/\ KeysOf(vectors') = KeysOf(vectors)
           /\ KeysOf(vectors') = {last'.chunks[i].source : i \in 1..Len(last'.chunks)}
           /\ Cardinality(vectors') = Cardinality(KeysOf(vectors'))
           /\ Cardinality(vectors') = Len(last'.chunks))]_vars

\* a file of three chunks was fully saved twice in a row and the index holds
\* three records
C13_Witness ==
    /\ mode = "reprocess" /\ pc = "resaved" /\ idx = 2
    /\ FullySaved(last) /\ Len(last.chunks) = 3
    /\ Cardinality(vectors) = 3
    /\ KeysOf(vectors) = {last.chunks[i].source : i \in 1..3}

\* C14: in a crawl, the chunks a step hands to the store have pairwise
\* different sources and chunk indexes, each source being the file's path
\* with the chunk's index, and none of them is the source of a chunk of
\* another file of the run: not one that is in the index, not one the step
\* before handed over; the files of the run differ in their paths.
C14_SourcesAreUniqueInARun ==
    [][(mode = "crawl" /\ idx' = idx + 1 /\ last'.save_called)
       => LET new == last'.chunks
          IN /\ \A i, j \in 1..Len(new) :
                   i # j => /\ new[i].source # new[j].source
                            /\ new[i].metadata.chunk_index
                                  # new[j].metadata.chunk_index
             /\ \A i \in 1..Len(new) :
                   /\ new[i].source
                         = last'.path \o ChunkTag \o str(new[i].metadata.chunk_index)
                   /\ new[i].source \notin KeysOf(vectors)
                   /\ last.save_called
                      => \A j \in 1..Len(last.chunks) :
                             new[i].source # last.chunks[j].source
             /\ \A v \in vectors : v.metadata.file_path # last'.path
             /\ last.save_called => last.path # last'.path]_vars

\* a crawl wrote the chunks of two Markdown files, several of each, and the
\* index holds one record for each source
C14_Witness ==
    /\ mode = "crawl" /\ pc = "done"
    /\ Cardinality({v \in vectors : v.metadata.file_path = PathA}) >= 2
    /\ Cardinality({v \in vectors : v.metadata.file_path = PathB}) >= 2
    /\ Cardinality(KeysOf(vectors)) = Cardinality(vectors)
    /\ last.save_called /\ Len(last.chunks) >= 2

(***************************************************************************)
(* Searches.                                                               *)
(***************************************************************************)
Float07 == <<"3", "f", "e", "6", "6", "6", "6", "6",
             "6", "6", "6", "6", "6", "6", "6", "6">>        \* 0.7
FloatMinus04 == <<"b", "f", "d", "9", "9", "9", "9", "9",
                  "9", "9", "9", "9", "9", "9", "9", "a">>   \* -0.4
FloatBelowMinus04 == <<"b", "f", "d", "9", "9", "9", "9", "9",
                       "9", "9", "9", "9", "9", "9", "9", "8">>  \* -0.3999999999999999

\* the hits of the answer the call got
HitsOf(call) == dict_get(call.response, "vectors", <<>>)

\* the search went through: both backends answered and every hit was usable
SearchCompleted(call) ==
    /\ call.embed_ok /\ call.query_ok
    /\ \A i \in 1..Len(HitsOf(call)) : ~hit_raises(HitsOf(call)[i])

\* the distance search uses for a hit: the reported one, 1.0 without one
DistanceOf(hit) == dict_get(hit, "distance", FloatOne)

\* the double that 1.0 - distance is, for the distances of the samples
ScoreFor(distance) ==
    CASE distance = Float00 -> FloatOne
      [] distance = Float03 -> Float07
      [] distance = FloatOne -> Float00
      [] distance = Float14 -> FloatBelowMinus04

\* C15 (amended): every result of a search has the score that the double
\* subtraction 1.0 - distance gives for the distance of its hit, with no
\* clamping at either end: distance 0 gives 1.0, distance 0.3 gives 0.7,
\* distance 1.0 gives 0.0, and distance 1.4 gives the negative double
\* -0.3999999999999999, the one next to -0.4 towards zero.
C15_ScoreIsOneMinusDistance ==
    (pc = "searched" /\ SearchCompleted(last))
    => /\ Len(last.results) = Len(HitsOf(last))
       /\ \A i \in 1..Len(last.results) :
              /\ last.results[i].score = ScoreFor(DistanceOf(HitsOf(last)[i]))
              /\ DistanceOf(HitsOf(last)[i]) = Float14
                 => float_negative(last.results[i].score)

\* a search returned a result for a hit at distance 0.3 and one for a hit at
\* distance 1.4, the second with a negative score
C15_Witness ==
    /\ pc = "searched" /\ SearchCompleted(last)
    /\ \E i, j \in 1..Len(last.results) :
           /\ "distance" \in DOMAIN HitsOf(last)[i]
           /\ HitsOf(last)[i].distance = Float03
           /\ last.results[i].score = Float07
           /\ "distance" \in DOMAIN HitsOf(last)[j]
           /\ HitsOf(last)[j].distance = Float14
           /\ float_negative(last.results[j].score)

\* C15 as stated: distance 0.3 gives score 0.7 and distance 1.4 gives score
\* -0.4.
C15_AsStated ==
    (pc = "searched" /\ SearchCompleted(last))
    => \A i \in 1..Len(last.results) :
           /\ DistanceOf(HitsOf(last)[i]) = Float03
              => last.results[i].score = Float07
           /\ DistanceOf(HitsOf(last)[i]) = Float14
              => last.results[i].score = FloatMinus04

NearestFirst(hits) ==
    \A i \in 1..(Len(hits) - 1) :
        ~float_less(DistanceOf(hits[i + 1]), DistanceOf(hits[i]))

\* C17: a search that goes through returns exactly one result per hit of the
\* backend, the i-th result made from the i-th hit, so the results are in the
\* backend's order; with the hits listed nearest first, the scores never
\* increase along the results.
C17_ResultsInBackendOrder ==
    (pc = "searched" /\ SearchCompleted(last))
    => /\ Len(last.results) = Len(HitsOf(last))
       /\ \A i \in 1..Len(last.results) :
              /\ last.results[i].metadata
                    = dict_get(HitsOf(last)[i], "metadata", EmptyDict)
              /\ last.results[i].score = ScoreFor(DistanceOf(HitsOf(last)[i]))
       /\ NearestFirst(HitsOf(last))
          => \A i \in 1..(Len(last.results) - 1) :
                 ~float_less(last.results[i].score, last.results[i + 1].score)

\* the backend returned two hits of different chunks, the nearer first, and
\* the search returned their two results in that order, the better first
C17_Witness ==
    /\ pc = "searched" /\ SearchCompleted(last)
    /\ Len(HitsOf(last)) = MaxHits /\ Len(last.results) = MaxHits
    /\ last.results[1].metadata # last.results[2].metadata
    /\ last.results[1].source = last.results[1].metadata.source
    /\ float_less(DistanceOf(HitsOf(last)[1]), DistanceOf(HitsOf(last)[2]))
    /\ float_less(last.results[2].score, last.results[1].score)

(***************************************************************************)
(* The file-count ceiling.                                                 *)
(***************************************************************************)
\* min(max_files, length of the listing)
Ceiling == IF max_files < Len(files) THEN max_files ELSE Len(files)

\* C18: with max_files = N > 0 a crawl goes through the first min(N, length
\* of the listing) files of the listing and no other: each iteration takes
\* the next file of the listing and counts it in total_files, the loop is
\* still running only before that many files, and it ends after exactly that
\* many, so total_files never passes N and no file beyond the first N gets to
\* process_file.
C18_CeilingCutsTheCrawl ==
    [][(mode = "crawl" /\ max_files > 0)
       => (/\ idx' <= Ceiling' /\ idx' <= max_files
           /\ stats'.total_files = idx'
           /\ idx' # idx
              => (/\ idx' = idx + 1
                  /\ stats'.total_files = stats.total_files + 1
                  /\ last'.path = files'[idx'])
           /\ pc' = "loop" => idx' < Ceiling'
           /\ (pc' = "done" /\ files' # <<>>) => idx' = Ceiling')]_vars

\* a crawl with max_files = 2 over a listing of three files ended after the
\* second file of the listing
C18_Witness ==
    /\ mode = "crawl" /\ pc = "done"
    /\ max_files = 2 /\ Len(files) = 3
    /\ idx = 2 /\ stats.total_files = 2
    /\ last.path = files[2]

(***************************************************************************)
(* Segmentation.                                                           *)
(***************************************************************************)
\* text holds none of the splitter's separators and no whitespace
SingleToken(text) ==
    /\ text # <<>>
    /\ \A i \in 1..Len(text) : text[i] \notin Whitespace \cup {"."}

\* C19: no piece the splitter returns and no chunk made from one is longer
\* than ChunkSize characters, whatever the text; a text that is one token
\* longer than ChunkSize is cut into several chunks, none the whole token.
C19_NoChunkOverMaxSize ==
    pc = "segmented"
    => /\ \A i \in 1..Len(last.text_chunks) :
              Len(last.text_chunks[i]) <= ChunkSize
       /\ \A i \in 1..Len(last.chunks) :
              Len(last.chunks[i].content) <= ChunkSize
       /\ (SingleToken(last.processed_content)
           /\ Len(last.processed_content) > ChunkSize)
          => /\ Len(last.chunks) >= 2
             /\ \A i \in 1..Len(last.chunks) :
                    last.chunks[i].content # last.processed_content

\* a token of more than ChunkSize characters came out as several chunks
C19_Witness ==
    /\ pc = "segmented"
    /\ SingleToken(last.content) /\ Len(last.content) > ChunkSize
    /\ Len(last.chunks) >= 2
    /\ \A i \in 1..Len(last.chunks) : Len(last.chunks[i].content) <= ChunkSize

\* C20 (amended): a text shorter than ChunkSize whose normalised form is not
\* empty gives exactly one chunk, whose content is the normalised text; a
\* text that is empty or whose normalised form is empty gives no chunk.
C20_ShortTextIsOneChunk ==
    pc = "segmented"
    => /\ (Len(last.content) < ChunkSize /\ last.processed_content # <<>>)
          => /\ Len(last.chunks) = 1
             /\ last.chunks[1].content = last.processed_content
       /\ last.processed_content = <<>> => last.chunks = <<>>
       /\ last.content = <<>> => last.processed_content = <<>>

\* a short text with whitespace around a word gave one chunk, the text
\* without the whitespace around it
C20_Witness ==
    /\ pc = "segmented"
    /\ last.content # <<>> /\ Len(last.content) < ChunkSize
    /\ last.processed_content # last.content
    /\ last.processed_content # <<>>
    /\ Len(last.chunks) = 1
    /\ last.chunks[1].content = last.processed_content

\* C20 as stated: every non-empty text shorter than ChunkSize gives exactly
\* one chunk, the normalised text; the empty text gives none.
C20_AsStated ==
    pc = "segmented"
    => /\ (last.content # <<>> /\ Len(last.content) < ChunkSize)
          => /\ Len(last.chunks) = 1
             /\ last.chunks[1].content = last.processed_content
       /\ last.content = <<>> => last.chunks = <<>>

\* text without its whitespace characters
Unspaced(text) == SelectSeq(text, LAMBDA c : c \notin Whitespace)

\* the texts of the chunks, in order
ContentsOf(chunks) == [i \in 1..Len(chunks) |-> chunks[i].content]

\* target is parts[i], parts[i + 1], ... put end to end, each part but the
\* first of all without a leading overlap: at most ChunkOverlap characters
\* that are the last characters of the part before it
RECURSIVE Rebuilds(_, _, _)
Rebuilds(parts, i, target) ==
    IF i > Len(parts) THEN target = <<>>
    ELSE \E k \in 0..ChunkOverlap :
            /\ k <= Len(parts[i])
            /\ k > 0 => /\ i > 1 /\ k <= Len(parts[i - 1])
                        /\ SubSeq(parts[i], 1, k)
                              = SubSeq(parts[i - 1], Len(parts[i - 1]) - k + 1,
                                       Len(parts[i - 1]))
            /\ Len(parts[i]) - k <= Len(target)
            /\ SubSeq(parts[i], k + 1, Len(parts[i]))
                  = SubSeq(target, 1, Len(parts[i]) - k)
            /\ Rebuilds(parts, i + 1,
                        SubSeq(target, Len(parts[i]) - k + 1, Len(target)))

\* C21 (amended): the chunks of a text, put end to end in order with each
\* chunk's leading overlap with the chunk before it removed, give back the
\* normalised text up to whitespace: the characters that are not whitespace
\* come back all, once each and in order, while whitespace where two chunks
\* meet is lost, the chunks being stripped.
C21_RoundTripUpToWhitespace ==
    pc = "segmented"
    => Rebuilds([i \in 1..Len(last.chunks) |-> Unspaced(last.chunks[i].content)],
                1, Unspaced(last.processed_content))

\* a text of two words came out as two chunks, the space between them in
\* neither, and the chunks give the words back
C21_Witness ==
    /\ pc = "segmented"
    /\ Len(last.chunks) >= 2
    /\ Contains(last.processed_content, <<" ">>)
    /\ \A i \in 1..Len(last.chunks) : ~Contains(last.chunks[i].content, <<" ">>)
    /\ Rebuilds([i \in 1..Len(last.chunks) |-> Unspaced(last.chunks[i].content)],
                1, Unspaced(last.processed_content))

\* C21 as stated: the chunks with the overlaps removed give back the
\* normalised text itself.
C21_AsStated ==
    pc = "segmented"
    => Rebuilds(ContentsOf(last.chunks), 1, last.processed_content)

(***************************************************************************)
(* Chunk indexes.                                                          *)
(***************************************************************************)
\* C22: the chunks of a file, in order, have the chunk_index values 0, 1,
\* ..., n - 1, n being the number of chunks, and each chunk's source is the
\* path with its chunk_index; also when the splitter returned blank pieces,
\* which are dropped.
C22_IndexesAreZeroToN ==
    pc = "segmented"
    => \A i \in 1..Len(last.chunks) :
           /\ last.chunks[i].metadata.chunk_index = i - 1
           /\ last.chunks[i].source
                 = PathA \o ChunkTag \o str(last.chunks[i].metadata.chunk_index)

(***************************************************************************)
(* The health check.                                                       *)
(***************************************************************************)
\* the step is a call of health_check
HealthChecked ==
    /\ idx' = idx /\ last' # last
    /\ "health" \in DOMAIN last'

\* C23: a call of health_check returns true exactly when the embedding model
\* returned an embedding; when the embedding call fails it returns false and
\* does not raise; the index is after the call what it was before it.
C23_HealthCheckReportsTheModel ==
    [][HealthChecked
       => (/\ ~last'.health.raised
           /\ last'.health.returned = (last'.health.response = "embedding")
           /\ vectors' = vectors)]_vars

\* a health check failed on the embedding call, returned false, and the
\* index keeps the records a run had written
C23_Witness ==
    /\ "health" \in DOMAIN last
    /\ last.health.response = "invoke_failed"
    /\ ~last.health.returned /\ ~last.health.raised
    /\ vectors # {}

(***************************************************************************)
(* No rollback.                                                            *)
(***************************************************************************)
\* process_file returned false with some chunks written: embeddings failed
\* for half of the chunks or more and the write of the rest went through
PartlyPersisted(call) ==
    /\ call.invoked /\ call.save_called /\ ~call.result
    /\ call.put_returned /\ call.saved_ids # <<>>
    /\ 2 * Len(call.saved_ids) <= Len(call.chunks)

\* C24: when process_file returns false because at most half of the chunks
\* of the file were written, the records of the chunks that were written
\* are in the index after the call, under their sources.
C24_NoRollback ==
    PartlyPersisted(last)
    => /\ \A i \in 1..Len(last.saved_ids) : last.saved_ids[i] \in KeysOf(vectors)
       /\ \A i \in 1..Len(last.chunks) :
              last.embedded[i] => vector_record(last.chunks[i]) \in vectors

\* one of the two chunks of a file was written, the call returned false and
\* the record is in the index
C24_Witness ==
    /\ PartlyPersisted(last)
    /\ Len(last.chunks) = 2 /\ Len(last.saved_ids) = 1
    /\ last.saved_ids[1] \in KeysOf(vectors)

(***************************************************************************)
(* Two files at the same time.                                             *)
(***************************************************************************)
\* the keys of the records caller w prepared
QueueKeys(w) == {last[w].queue[i].key : i \in 1..Len(last[w].queue)}

\* what process_file gives for the file of caller w, run alone on index
AloneOn(w, index) ==
    process_file("markdown", last[w].content, files[w], MetadataOf(files[w]),
                 last[w].embed_ok, last[w].put_ok, index)

\* C25: two callers with files of different paths prepare records of
\* different keys, and once both are done, however their writes were
\* interleaved, the index and the two verdicts are those of processing the
\* one file and then the other, in either order.
C25_InterleavingIsSequential ==
    mode = "concurrent"
    => /\ (pc[1] # "idle" /\ pc[2] # "idle") => QueueKeys(1) \cap QueueKeys(2) = {}
       /\ (pc[1] = "done" /\ pc[2] = "done")
          => /\ vectors = AloneOn(2, AloneOn(1, {}).index).index
             /\ vectors = AloneOn(1, AloneOn(2, {}).index).index
             /\ last[1].result = AloneOn(1, {}).result
             /\ last[2].result = AloneOn(2, AloneOn(1, {}).index).result
             /\ last[2].result = AloneOn(2, {}).result
             /\ last[1].result = AloneOn(1, AloneOn(2, {}).index).result

\* both callers have several records to write and each has written its first
\* one: the writes of the two files are interleaved
C25_Witness ==
    /\ mode = "concurrent"
    /\ pc[1] = "writing" /\ pc[2] = "writing"
    /\ last[1].written = 1 /\ last[2].written = 1
    /\ Len(last[1].queue) >= 2 /\ Len(last[2].queue) >= 2
    /\ Cardinality(vectors) = 2

(***************************************************************************)
(* What a record holds.                                                    *)
(***************************************************************************)
\* the call of save_chunks wrote its batch
BatchWritten(call) == call.save_called /\ call.put_returned

\* the chunk's own metadata has an entry of a name save_chunks adds
Clashes(chunk) == {"content", "chunk_size", "source"} \cap DOMAIN chunk.metadata # {}

\* C26: the record written for a chunk has, in its metadata, the text of the
\* chunk under content, its length under chunk_size and its source under
\* source, beside the chunk's own entries of other names; the SearchResult
\* search builds from a hit with that metadata has the chunk's content and
\* source.  This is so too when the chunk's own metadata has entries of
\* those names.
C26_RecordHoldsTheChunk ==
    BatchWritten(last)
    => \A i \in 1..Len(last.chunks) :
          last.embedded[i]
          => \E v \in vectors :
                /\ v.key = last.chunks[i].source
                /\ v.metadata.content = last.chunks[i].content
                /\ v.metadata.chunk_size = Len(last.chunks[i].content)
                /\ v.metadata.source = last.chunks[i].source
                /\ \A k \in DOMAIN last.chunks[i].metadata
                           \ {"content", "chunk_size", "source"} :
                       v.metadata[k] = last.chunks[i].metadata[k]
                /\ search_result([distance |-> Float03, metadata |-> v.metadata]).content
                      = last.chunks[i].content
                /\ search_result([distance |-> Float03, metadata |-> v.metadata]).source
                      = last.chunks[i].source

\* a chunk whose own metadata names another content and source was written,
\* and its record holds the chunk's text and source
C26_Witness ==
    /\ BatchWritten(last) /\ Len(last.chunks) = 1
    /\ Clashes(last.chunks[1])
    /\ last.chunks[1].metadata.content # last.chunks[1].content
    /\ \E v \in vectors : /\ v.key = last.chunks[1].source
                          /\ v.metadata.content = last.chunks[1].content

(***************************************************************************)
(* Frontmatter.                                                            *)
(***************************************************************************)
\* the line "---" closes a block at index i: it starts a line after the
\* opening line and ends with a newline
ClosesAt(content, i) ==
    /\ i > Len(FmOpen)
    /\ content[i - 1] = "\n"
    /\ StartsWithAt(content, FmOpen, i)

\* the content begins with a block between two "---" lines
LeadingBlock(content) ==
    /\ StartsWithAt(content, FmOpen, 1)
    /\ \E i \in 1..Len(content) : ClosesAt(content, i)

\* the content after the line that closes its leading block
AfterLeadingBlock(content) ==
    SubSeq(content,
           Len(FmOpen) + (CHOOSE i \in 1..Len(content) :
                             /\ ClosesAt(content, i)
                             /\ \A j \in 1..(i - 1) : ~ClosesAt(content, j)),
           Len(content))

\* C27: a content that begins, at its first character, with a block between
\* two "---" lines loses that block before it is segmented, also when no
\* line stands between the two; a content without such a block is left as
\* it is.
C27_LeadingBlockRemoved ==
    pc = "segmented"
    => last.content_without_fm
          = IF LeadingBlock(last.content) THEN AfterLeadingBlock(last.content)
            ELSE last.content

(***************************************************************************)
(* Normalisation of lines.  A line is a piece of the text between two      *)
(* newlines (or an end of the text); a blank line has whitespace only.     *)
(***************************************************************************)
BlankLine(line) == \A i \in 1..Len(line) : line[i] \in Whitespace

\* how many blank lines in a row end at line i
BlankRunTo(lines, i) ==
    i - MaxOf({0} \cup {j \in 1..(i - 1) : ~BlankLine(lines[j])})

\* the lines that stay: the others are blank lines after two blank lines
Staying(lines) ==
    {i \in 1..Len(lines) : ~BlankLine(lines[i]) \/ BlankRunTo(lines, i) <= 2}

\* line without the whitespace at its end
WithoutTrailing(line) ==
    SubSeq(line, 1, MaxOf({0} \cup {i \in 1..Len(line) : line[i] \notin Whitespace}))

\* the lines that stay, in their order, each without its trailing whitespace
NormalLines(lines) ==
    [n \in 1..Cardinality(Staying(lines)) |->
        WithoutTrailing(lines[CHOOSE i \in Staying(lines) :
            Cardinality({j \in Staying(lines) : j <= i}) = n])]

\* C28: clean_content takes the whitespace off the end of every line and
\* cuts every run of more than two blank lines to two; lines that are not
\* blank and runs of one or two blank lines stay, in their order; cleaning
\* the cleaned text changes nothing.
C28_CleanContentNormalises ==
    pc = "segmented"
    => /\ split_lines(last.cleaned) = NormalLines(split_lines(last.content_without_fm))
       /\ \A i \in 1..Len(split_lines(last.cleaned)) :
              /\ WithoutTrailing(split_lines(last.cleaned)[i])
                    = split_lines(last.cleaned)[i]
              /\ BlankLine(split_lines(last.cleaned)[i])
                 => BlankRunTo(split_lines(last.cleaned), i) <= 2
       /\ clean_content(last.cleaned) = last.cleaned

\* a text with three blank lines in a row and a line ending in a space was
\* cleaned: two blank lines are left and the space is gone
C28_Witness ==
    /\ pc = "segmented"
    /\ \E i \in 1..Len(split_lines(last.content_without_fm)) :
           /\ BlankLine(split_lines(last.content_without_fm)[i])
           /\ BlankRunTo(split_lines(last.content_without_fm), i) = 3
    /\ \E i \in 1..Len(split_lines(last.content_without_fm)) :
           /\ ~BlankLine(split_lines(last.content_without_fm)[i])
           /\ WithoutTrailing(split_lines(last.content_without_fm)[i])
                 # split_lines(last.content_without_fm)[i]
    /\ \E i \in 1..Len(split_lines(last.cleaned)) :
           /\ BlankLine(split_lines(last.cleaned)[i])
           /\ BlankRunTo(split_lines(last.cleaned), i) = 2
    /\ Len(last.cleaned) < Len(last.content_without_fm) - 1

(***************************************************************************)
(* The statistics of a crawler over its crawls.                            *)
(***************************************************************************)
\* an entry without 'path' ended a crawl of the crawler
PathlessMet(st) ==
    \E i \in 1..Len(st.errors) : st.errors[i].path = <<"'path'">>

Outcomes(st) == st.successful_embeddings + st.failed_embeddings + st.skipped_files

\* C29: as long as every entry of the listings has a path, total_files is the
\* sum of successful_embeddings, failed_embeddings and skipped_files after
\* every step of every crawl of the crawler; an iteration adds one to
\* total_files and one to exactly one of the three; no counter ever goes
\* down, from crawl to crawl either.
C29_CountersAddUp ==
    [][mode = "crawl"
       => (/\ ~PathlessMet(stats') => stats'.total_files = Outcomes(stats')
           /\ stats'.total_files >= stats.total_files
           /\ stats'.successful_embeddings >= stats.successful_embeddings
           /\ stats'.failed_embeddings >= stats.failed_embeddings
           /\ stats'.skipped_files >= stats.skipped_files
           /\ Len(stats'.errors) >= Len(stats.errors)
           /\ (idx' = idx + 1 /\ ~PathlessMet(stats'))
              => (/\ stats'.total_files = stats.total_files + 1
                  /\ Outcomes(stats') = Outcomes(stats) + 1)
           /\ (pc = "done" /\ pc' = "idle") => stats' = stats)]_vars

\* a second crawl of a crawler ended: a file failed in the one and a file
\* was a success in the other, and the counters add up
C29_Witness ==
    /\ mode = "crawl" /\ pc = "done"
    /\ stats.total_files = 2
    /\ stats.successful_embeddings = 1 /\ stats.failed_embeddings = 1
    /\ Len(files) = 1
    /\ ~PathlessMet(stats)

====
